---- MODULE Spec2Model ----
(***************************************************************************)
(* Control-automation pipeline (backend/agents): the chunker, the risk     *)
(* grader, the report consolidation and the orchestrator's control chain.  *)
(* Each component has its own specification over the shared variables:     *)
(*   SpecChunk   ExtractorAgent._chunk_text                                *)
(*   SpecGrade   GraderAgent.run                                           *)
(*   SpecReport  ReporterAgent.run / _calculate_summary                    *)
(*   Spec        OrchestratorAgent.run_control_chain                       *)
(*   SpecTwoRuns two run_control_chain executions on one Chroma client     *)
(*   SpecControl ControllerAgent.run on its own                            *)
(*   SpecExtract ExtractorAgent.run on its own                             *)
(*   SpecSelect  SelectorAgent.run and the controller's load of its files   *)
(* SpecChunkFair is SpecChunk with weak fairness of the chunker's steps.   *)
(***************************************************************************)
EXTENDS Integers, Sequences, FiniteSets, TLC

VARIABLES
    \* ---- ExtractorAgent._chunk_text ----
    text,            \* the text argument (a sequence of characters)
    chunk_size,      \* the chunk_size argument
    chunk_overlap,   \* the chunk_overlap local (reassigned by the clamp)
    arg_overlap,     \* the chunk_overlap the caller passed
    chunks,          \* the chunks list
    start,           \* the loop variable start
    starts,          \* value of start when each chunk was appended
    cpc,             \* position in _chunk_text: "entry", "loop", "done"
    \* ---- GraderAgent.run ----
    g_results,       \* the detailed_results list (items are updated in place)
    g_i,             \* number of items the for loop has completed
    g_resp,          \* what grade_llm.run did for the item graded last
    gpc,             \* position in GraderAgent.run: "entry", "loop", "done", "raised"
    \* ---- ReporterAgent.run ----
    r_results,       \* the detailed_results argument
    is_failure,      \* the is_failure argument
    results_by_id,   \* results_by_id: control id -> its items, in input order
    consolidated_data, \* consolidated_data: control id -> worst item
    report,          \* what was written to the report file (None: nothing)
    r_path,          \* the value run returns
    rpc,             \* position in ReporterAgent.run
    \* ---- OrchestratorAgent.run_control_chain ----
    pc,              \* position in run_control_chain
    specified_meta_category, \* the specified_meta_category argument
    document_path,   \* directories of the resolved document path, root first
    meta_category,   \* the meta_category local
    vector_collection, \* what ExtractorAgent.run returned as collection
    extraction_error_msg, \* what ExtractorAgent.run returned as error
    store,           \* names of the collections the Chroma client holds
    first_chunk,     \* text of the first chunk stored in the collection
    n_chunks,        \* number of chunks added to the collection
    peeked,          \* outcome of vector_collection.peek (None: not called)
    prompt_files,    \* what SelectorAgent.run returned
    p_i,             \* prompt files ControllerAgent.run has completed
    detailed_results, \* detailed_results_no_score / detailed_results
    per_control,     \* per prompt file ControllerAgent.run has completed: its calls and results
    log,             \* calls made so far, in order
    reports,         \* ReporterAgent.run calls: arguments and returned path
    ret,             \* the value run_control_chain returned (<<>>: none yet)
    \* ---- two concurrent run_control_chain executions ----
    run_pc,          \* position of each run in its collection's life
    collection_name, \* the collection_name local of each run (None: not yet set)
    client_collections, \* names of the collections the shared Chroma client holds
    stored_by,       \* collection name -> runs whose chunks it holds
    queries,         \* number of controller queries each run has made
    calls,           \* Chroma calls made: [run, op, name]
    \* ---- ExtractorAgent.run ----
    xpc,             \* position in ExtractorAgent.run
    text_chunks,     \* the text_chunks local
    embeddings,      \* what get_openai_embeddings returned (returned FALSE: None)
    x_store,         \* names of the collections the Chroma client holds
    x_added,         \* arguments of the collection.add call (<<>>: not called)
    x_stored,        \* what the collection holds (<<>>: nothing)
    x_calls,         \* calls made on the Chroma client and the collection, in order
    x_ret,           \* the pair run returned (<<>>: none yet)
    \* ---- SelectorAgent.run, then ControllerAgent.run's load step ----
    spc,             \* position: "entry", "listing", "selected"
    category_dir,    \* the category directory: whether it exists, its entries
    s_i,             \* number of directory entries visited
    valid_prompt_files, \* the valid_prompt_files list / the list run returned
    loaded           \* per file the controller reached: what it loaded and did

chunkVars == <<text, chunk_size, chunk_overlap, arg_overlap, chunks, start, starts, cpc>>
gradeVars == <<g_results, g_i, g_resp, gpc>>
reportVars == <<r_results, is_failure, results_by_id, consolidated_data, report, r_path, rpc>>

pipeVars == <<pc, specified_meta_category, document_path, meta_category,
              vector_collection, extraction_error_msg, store, first_chunk, n_chunks,
              peeked, prompt_files, p_i, detailed_results, per_control, log,
              reports, ret>>

twoVars == <<run_pc, collection_name, client_collections, stored_by, queries, calls>>

extractVars == <<xpc, text_chunks, embeddings, x_store, x_added, x_stored, x_calls, x_ret>>

selectVars == <<spc, category_dir, s_i, valid_prompt_files, loaded>>

vars == <<chunkVars, gradeVars, reportVars, pipeVars, twoVars, extractVars, selectVars>>

notChunk == <<gradeVars, reportVars, pipeVars, twoVars, extractVars, selectVars>>
notGrade == <<chunkVars, reportVars, pipeVars, twoVars, extractVars, selectVars>>
notReport == <<chunkVars, gradeVars, pipeVars, twoVars, extractVars, selectVars>>
notPipe == <<chunkVars, gradeVars, reportVars, twoVars, extractVars, selectVars>>
notTwo == <<chunkVars, gradeVars, reportVars, pipeVars, extractVars, selectVars>>
notExtract == <<chunkVars, gradeVars, reportVars, pipeVars, twoVars, selectVars>>
notSelect == <<chunkVars, gradeVars, reportVars, pipeVars, twoVars, extractVars>>

None == "None"

Min(a, b) == IF a <= b THEN a ELSE b
Max(a, b) == IF a >= b THEN a ELSE b

\* Python slice s[lo:hi] for 0 <= lo, on a sequence (offsets are 0-based).
Slice(s, lo, hi) == SubSeq(s, lo + 1, Min(hi, Len(s)))

RECURSIVE Flatten(_)
Flatten(ss) == IF ss = <<>> THEN <<>> ELSE Head(ss) \o Flatten(Tail(ss))

\* The state of a component that is not running in the specification at hand.
ChunkIdle ==
    /\ text = <<>>
    /\ chunk_size = 0
    /\ chunk_overlap = 0
    /\ arg_overlap = 0
    /\ chunks = <<>>
    /\ start = 0
    /\ starts = <<>>
    /\ cpc = "idle"

GradeIdle ==
    /\ g_results = <<>>
    /\ g_i = 0
    /\ g_resp = None
    /\ gpc = "idle"

ReportIdle ==
    /\ r_results = <<>>
    /\ is_failure = FALSE
    /\ results_by_id = <<>>
    /\ consolidated_data = <<>>
    /\ report = None
    /\ r_path = None
    /\ rpc = "idle"

PipeIdle ==
    /\ pc = "idle"
    /\ specified_meta_category = None
    /\ document_path = <<>>
    /\ meta_category = ""
    /\ vector_collection = <<>>
    /\ extraction_error_msg = None
    /\ store = {}
    /\ first_chunk = <<>>
    /\ n_chunks = 0
    /\ peeked = None
    /\ prompt_files = <<>>
    /\ p_i = 0
    /\ detailed_results = <<>>
    /\ per_control = <<>>
    /\ log = <<>>
    /\ reports = <<>>
    /\ ret = <<>>

TwoIdle ==
    /\ run_pc = <<>>
    /\ collection_name = <<>>
    /\ client_collections = {}
    /\ stored_by = <<>>
    /\ queries = <<>>
    /\ calls = {}

SelectIdle ==
    /\ spc = "idle"
    /\ category_dir = [isdir |-> FALSE, entries |-> <<>>]
    /\ s_i = 0
    /\ valid_prompt_files = <<>>
    /\ loaded = <<>>

ExtractIdle ==
    /\ xpc = "idle"
    /\ text_chunks = <<>>
    /\ embeddings = [returned |-> FALSE, vectors |-> <<>>]
    /\ x_store = {}
    /\ x_added = <<>>
    /\ x_stored = <<>>
    /\ x_calls = <<>>
    /\ x_ret = <<>>

(***************************************************************************)
(* ExtractorAgent._chunk_text  (extractor.py 245-275)                      *)
(***************************************************************************)
MaxTextLen == 5
MaxChunkSize == 4
MaxOverlapArg == 5
Alphabet == {"a", "b"}

RECURSIVE SeqsUpTo(_, _)
SeqsUpTo(S, n) ==
    IF n = 0 THEN {<<>>}
    ELSE LET shorter == SeqsUpTo(S, n - 1)
         IN  shorter \cup {Append(s, x) : s \in {t \in shorter : Len(t) = n - 1}, x \in S}

Texts == SeqsUpTo(Alphabet, MaxTextLen)

\* extractor.py 253-258: the overlap used by the loop
ClampOverlapNoHalving(size, overlap) ==
    IF overlap >= size THEN size
    ELSE IF overlap < 0 THEN 0
    ELSE overlap

ClampOverlap(size, overlap) ==
    IF overlap >= size THEN Max(0, size \div 2)
    ELSE IF overlap < 0 THEN 0
    ELSE overlap

\* extractor.py 270: next_start = start + chunk_size - chunk_overlap
NextStartIgnoringOverlap(s, size, overlap) == s + size

NextStart(s, size, overlap) == s + size - overlap

\* extractor.py 268-269: text[start:end] with end = start + chunk_size
ChunkWindowEndOffByOne(t, s, size) == Slice(t, s, s + size - 1)

ChunkWindow(t, s, size) == Slice(t, s, s + size)

ChunkInit ==
    /\ text \in Texts
    /\ chunk_size \in -1..MaxChunkSize
    /\ arg_overlap \in -1..MaxOverlapArg
    /\ chunk_overlap = arg_overlap
    /\ chunks = <<>>
    /\ start = 0
    /\ starts = <<>>
    /\ cpc = "entry"
    /\ GradeIdle
    /\ ReportIdle
    /\ PipeIdle
    /\ TwoIdle
    /\ ExtractIdle
    /\ SelectIdle

\* extractor.py 250-252: non-positive size returns the whole text as one chunk
ChunkBadSize ==
    /\ cpc = "entry"
    /\ chunk_size <= 0
    /\ chunks' = <<text>>
    /\ starts' = <<0>>
    /\ cpc' = "done"
    /\ UNCHANGED <<text, chunk_size, chunk_overlap, arg_overlap, start>>
    /\ UNCHANGED notChunk

\* extractor.py 253-262: clamp, then empty text returns []
ChunkEmptyText ==
    /\ cpc = "entry"
    /\ chunk_size > 0
    /\ text = <<>>
    /\ chunk_overlap' = ClampOverlap(chunk_size, chunk_overlap)
    /\ chunks' = <<>>
    /\ cpc' = "done"
    /\ UNCHANGED <<text, chunk_size, arg_overlap, start, starts>>
    /\ UNCHANGED notChunk

\* extractor.py 253-266: clamp, then enter the loop with start = 0
ChunkEnterLoop ==
    /\ cpc = "entry"
    /\ chunk_size > 0
    /\ text # <<>>
    /\ chunk_overlap' = ClampOverlap(chunk_size, chunk_overlap)
    /\ chunks' = <<>>
    /\ start' = 0
    /\ cpc' = "loop"
    /\ UNCHANGED <<text, chunk_size, arg_overlap, starts>>
    /\ UNCHANGED notChunk

\* a loop that steps by the overlap as passed and never breaks
ChunkLoopUnguarded ==
    /\ cpc = "loop"
    /\ start < Len(text)
    /\ chunks' = Append(chunks, ChunkWindow(text, start, chunk_size))
    /\ starts' = Append(starts, start)
    /\ start' = NextStart(start, chunk_size, arg_overlap)
    /\ UNCHANGED <<text, chunk_size, chunk_overlap, arg_overlap, cpc>>
    /\ UNCHANGED notChunk

\* extractor.py 267-273: one iteration of the while loop
ChunkLoop ==
    /\ cpc = "loop"
    /\ start < Len(text)
    /\ chunks' = Append(chunks, ChunkWindow(text, start, chunk_size))
    /\ starts' = Append(starts, start)
    /\ LET next_start == NextStart(start, chunk_size, chunk_overlap)
       IN  IF next_start <= start
           THEN cpc' = "done" /\ start' = start
           ELSE cpc' = "loop" /\ start' = next_start
    /\ UNCHANGED <<text, chunk_size, chunk_overlap, arg_overlap>>
    /\ UNCHANGED notChunk

\* extractor.py 267, 274-275: the loop condition fails, chunks are returned
ChunkReturn ==
    /\ cpc = "loop"
    /\ start >= Len(text)
    /\ cpc' = "done"
    /\ UNCHANGED <<text, chunk_size, chunk_overlap, arg_overlap, chunks, start, starts>>
    /\ UNCHANGED notChunk

ChunkNext == ChunkBadSize \/ ChunkEmptyText \/ ChunkEnterLoop \/ ChunkLoop \/ ChunkReturn

SpecChunk == ChunkInit /\ [][ChunkNext]_vars

\* _chunk_text is a sequential function: a call that has started keeps
\* executing its next statement
SpecChunkFair == SpecChunk /\ WF_vars(ChunkNext)

\* Python chunk[n:], chunk[:n] and the last n characters of a chunk
DropFirst(s, n) == Slice(s, n, Len(s))
FirstN(s, n) == SubSeq(s, 1, Min(n, Len(s)))
LastN(s, n) == SubSeq(s, Max(1, Len(s) - n + 1), Len(s))

DeOverlap(cs, O) == [i \in 1..Len(cs) |-> IF i = 1 THEN cs[i] ELSE DropFirst(cs[i], O)]

ValidChunkArgs ==
    /\ text # <<>>
    /\ chunk_size > 0
    /\ arg_overlap >= 0
    /\ arg_overlap < chunk_size

\* C9: for a non-empty text, size > 0 and overlap in [0, size), the chunks
\* returned by _chunk_text, each later chunk stripped of its first `overlap`
\* characters, concatenate to exactly the text, and the last chunk ends at
\* offset len(text).
C9_ChunkCoverage ==
    (cpc = "done" /\ ValidChunkArgs) =>
        /\ chunks # <<>>
        /\ Flatten(DeOverlap(chunks, arg_overlap)) = text
        /\ starts[Len(chunks)] + Len(chunks[Len(chunks)]) = Len(text)

\* C9 witness: a finished run with overlap > 0, at least three chunks and a
\* trailing chunk shorter than the overlap.
C9_Witness ==
    /\ cpc = "done"
    /\ ValidChunkArgs
    /\ arg_overlap >= 1
    /\ Len(chunks) >= 3
    /\ Len(chunks[Len(chunks)]) < arg_overlap

\* C10 (as claimed): consecutive chunks start S - O apart, adjacent non-final
\* chunks share O characters (end of chunk i = beginning of chunk i+1), and
\* only the final chunk is shorter than S.
C10_OnlyFinalChunkShort ==
    (cpc = "done" /\ chunk_size > 0) =>
        \A i \in 1..(Len(chunks) - 1) :
            /\ starts[i + 1] = starts[i] + (chunk_size - chunk_overlap)
            /\ Len(chunks[i]) = chunk_size
            /\ (i + 1 < Len(chunks)) =>
                   LastN(chunks[i], chunk_overlap) = FirstN(chunks[i + 1], chunk_overlap)

\* C10 (amended): consecutive chunks start S - O apart; a chunk is shorter
\* than S exactly when its window start + S passes the end of the text (there
\* can be several such trailing chunks); whenever chunk i has the full length
\* S and a successor, its last O characters are the first O characters of
\* chunk i+1.
C10_ChunkOverlap ==
    (cpc = "done" /\ chunk_size > 0) =>
        /\ \A i \in 1..Len(chunks) :
               Len(chunks[i]) = Min(chunk_size, Len(text) - starts[i])
        /\ \A i \in 1..(Len(chunks) - 1) :
               /\ starts[i + 1] = starts[i] + (chunk_size - chunk_overlap)
               /\ (Len(chunks[i]) = chunk_size) =>
                      /\ Len(chunks[i + 1]) >= chunk_overlap
                      /\ LastN(chunks[i], chunk_overlap) = FirstN(chunks[i + 1], chunk_overlap)

\* C10 witness: a finished run with overlap > 0 in which a chunk that is not
\* the final one is shorter than S, next to a full-length pair.
C10_Witness ==
    /\ cpc = "done"
    /\ chunk_size > 0
    /\ chunk_overlap >= 1
    /\ Len(chunks) >= 3
    /\ Len(chunks[1]) = chunk_size
    /\ Len(chunks[Len(chunks) - 1]) < chunk_size

\* C11: with size > 0 the overlap used for stepping is size // 2 when the
\* requested overlap is >= size (however large), 0 when it is negative, and
\* the requested overlap otherwise; consecutive chunks start size minus that
\* overlap apart.
C11_EffectiveOverlap ==
    (cpc \in {"loop", "done"} /\ chunk_size > 0) =>
        LET used == IF arg_overlap >= chunk_size THEN chunk_size \div 2
                    ELSE IF arg_overlap < 0 THEN 0
                    ELSE arg_overlap
        IN  /\ chunk_overlap = used
            /\ \A i \in 1..(Len(starts) - 1) : starts[i + 1] - starts[i] = chunk_size - used

\* C11 witness: a finished run whose requested overlap exceeds the size by
\* more than one and that stepped at least once.
C11_Witness ==
    /\ cpc = "done"
    /\ chunk_size >= 2
    /\ arg_overlap > chunk_size + 1
    /\ Len(chunks) >= 2

\* C12: applied to an empty text, _chunk_text returns the empty sequence, for
\* every size and overlap, size <= 0 included.
C12_EmptyTextNoChunks ==
    (cpc = "done" /\ text = <<>>) => chunks = <<>>

\* C13: for every text, size and overlap the loop terminates with a finite
\* sequence of chunks: every iteration that stays in the loop strictly
\* increases start, there are never more chunks than characters (one chunk
\* for size <= 0), and the call reaches its return.
C13_ChunkTerminates ==
    /\ [][(cpc = "loop" /\ cpc' = "loop") => start' > start]_vars
    /\ [](Len(chunks) <= Max(1, Len(text)))
    /\ <>(cpc = "done")

\* C13 witness: a finished run with a requested overlap >= size that still
\* produced several chunks.
C13_Witness ==
    /\ cpc = "done"
    /\ chunk_size > 0
    /\ arg_overlap >= chunk_size
    /\ Len(chunks) >= 3

(***************************************************************************)
(* GraderAgent.run  (grader.py 40-107)                                     *)
(***************************************************************************)
MaxGradeItems == 2
MaxRespLen == 2
RespAlphabet == {" ", "-", "0", "1", "5", "x"}
Digits == {"0", "1", "5"}
DigitVal == [d \in Digits |-> CASE d = "0" -> 0 [] d = "1" -> 1 [] d = "5" -> 5]

\* What grade_llm.run can do: raise, return an object without usable content
\* (no attribute, None or ""), or return a non-empty content string.
Responses ==
    {[kind |-> "raises", content |-> <<>>], [kind |-> "no_content", content |-> <<>>]}
        \cup {[kind |-> "content", content |-> c] : c \in SeqsUpTo(RespAlphabet, MaxRespLen) \ {<<>>}}

\* str.strip(): leading and trailing blanks removed
RECURSIVE LStrip(_)
LStrip(s) == IF s # <<>> /\ Head(s) = " " THEN LStrip(Tail(s)) ELSE s

RECURSIVE RStrip(_)
RStrip(s) == IF s # <<>> /\ s[Len(s)] = " " THEN RStrip(SubSeq(s, 1, Len(s) - 1)) ELSE s

Strip(s) == RStrip(LStrip(s))

RECURSIVE DecimalValue(_)
DecimalValue(ds) ==
    IF ds = <<>> THEN 0
    ELSE 10 * DecimalValue(SubSeq(ds, 1, Len(ds) - 1)) + DigitVal[ds[Len(ds)]]

\* Python int(str): blanks around, an optional sign, then one or more digits;
\* anything else is a ValueError (ok = FALSE).
ParseInt(s) ==
    LET t == Strip(s)
        neg == t # <<>> /\ Head(t) = "-"
        ds == IF neg THEN Tail(t) ELSE t
        good == ds # <<>> /\ \A k \in 1..Len(ds) : ds[k] \in Digits
    IN  [ok |-> good,
         val |-> IF ~good THEN 0 ELSE IF neg THEN 0 - DecimalValue(ds) ELSE DecimalValue(ds)]

\* grader.py 76-101: the score one item gets from one response
GradeScoreKeepsDefault(resp) ==
    IF resp.kind = "raises" THEN -1
    ELSE IF resp.kind = "content"
    THEN LET parsed == ParseInt(Strip(resp.content))
         IN  IF parsed.ok
             THEN IF 1 <= parsed.val /\ parsed.val <= 10 THEN parsed.val ELSE 10
             ELSE 10
    ELSE 10

GradeScore(resp) ==
    IF resp.kind = "raises" THEN 10
    ELSE IF resp.kind = "content"
    THEN LET parsed == ParseInt(Strip(resp.content))
         IN  IF parsed.ok
             THEN IF 1 <= parsed.val /\ parsed.val <= 10 THEN parsed.val ELSE 10
             ELSE 10
    ELSE 10

NoScore == "NoScore"

\* An ungraded controller result: its control id and whether its
\* instructions are a list of strings (what "\n".join at grader.py 64 needs).
GradeInputs ==
    [id : {"A", "B"}, instr : {"strs", "nonstr"}, score : {NoScore}]

GradeInit ==
    /\ g_results \in SeqsUpTo(GradeInputs, MaxGradeItems)
    /\ g_i = 0
    /\ g_resp = None
    /\ gpc = "entry"
    /\ ChunkIdle
    /\ ReportIdle
    /\ PipeIdle
    /\ TwoIdle
    /\ ExtractIdle
    /\ SelectIdle

\* grader.py 51-53: an empty list is returned as []
GradeEmpty ==
    /\ gpc = "entry"
    /\ g_results = <<>>
    /\ gpc' = "done"
    /\ UNCHANGED <<g_results, g_i, g_resp>>
    /\ UNCHANGED notGrade

\* grader.py 55-57: enter the for loop
GradeEnterLoop ==
    /\ gpc = "entry"
    /\ g_results # <<>>
    /\ gpc' = "loop"
    /\ UNCHANGED <<g_results, g_i, g_resp>>
    /\ UNCHANGED notGrade

\* an iteration whose failed model call also overwrites the score of the
\* item graded before it
GradeItemFailureSpreads ==
    /\ gpc = "loop"
    /\ g_i < Len(g_results)
    /\ g_results[g_i + 1].instr = "strs"
    /\ \E resp \in Responses :
        /\ g_resp' = resp
        /\ g_results' = [k \in DOMAIN g_results |->
              IF k = g_i + 1 \/ (k = g_i /\ resp.kind = "raises")
              THEN [g_results[k] EXCEPT !.score = GradeScore(resp)]
              ELSE g_results[k]]
    /\ g_i' = g_i + 1
    /\ UNCHANGED gpc
    /\ UNCHANGED notGrade

\* grader.py 57-104: one iteration, the model call answering resp
GradeItem ==
    /\ gpc = "loop"
    /\ g_i < Len(g_results)
    /\ g_results[g_i + 1].instr = "strs"
    /\ \E resp \in Responses :
        /\ g_resp' = resp
        /\ g_results' = [g_results EXCEPT ![g_i + 1].score = GradeScore(resp)]
    /\ g_i' = g_i + 1
    /\ UNCHANGED gpc
    /\ UNCHANGED notGrade

\* grader.py 64: "\n".join(instructions) raises TypeError, outside the try,
\* when an instruction is not a string; the exception leaves run
GradeJoinRaises ==
    /\ gpc = "loop"
    /\ g_i < Len(g_results)
    /\ g_results[g_i + 1].instr = "nonstr"
    /\ gpc' = "raised"
    /\ UNCHANGED <<g_results, g_i, g_resp>>
    /\ UNCHANGED notGrade

\* grader.py 106-107: the loop is over, the list is returned
GradeReturn ==
    /\ gpc = "loop"
    /\ g_i = Len(g_results)
    /\ gpc' = "done"
    /\ UNCHANGED <<g_results, g_i, g_resp>>
    /\ UNCHANGED notGrade

GradeNext == GradeEmpty \/ GradeEnterLoop \/ GradeItem \/ GradeJoinRaises \/ GradeReturn

SpecGrade == GradeInit /\ [][GradeNext]_vars

MaxResults == 3
PASS_SCORE_THRESHOLD == 5

\* A 'score' entry of a result dict: a number, a non-numeric value such as
\* the 'N/A' default of reporter.py 153, or no 'score' key at all.
Num(n) == [k |-> "int", v |-> n]
NonNumeric == [k |-> "str", v |-> 0]
Missing == [k |-> "missing", v |-> 0]
IsNumber(sc) == sc.k = "int"

\* Scores the repository writes: 1..10 from the grader (the boundary values
\* of the pass test), the -1 default of grader.py 76, the 0 of the
\* orchestrator's markers, and the non-numeric and missing cases the reporter
\* defaults.
Scores == {Missing, NonNumeric} \cup {Num(n) : n \in {-1, 0, 1, 4, 5, 10}}

\* Control ids, in ascending order of Python string comparison
IdOrder ==
    <<"A", "B", "C", "CATEGORY_FAILURE", "EXTRACTION_EMBED_FAILURE", "NO_CONTENT", "SKIP_KYC">>

\* reporter.py 69: markers left out of a normal report
SpecialMarkers == {"EXTRACTOR_ERROR", "CATEGORY_FAILURE", "NO_CONTENT"}

\* reporter.py 72: control_id.startswith('SKIP_'), on the ids that occur
StartsWithSkip(id) ==
    id \in {"SKIP_KYC", "SKIP_RGPD", "SKIP_LCBFT", "SKIP_MIFID", "SKIP_RSE",
            "SKIP_INTERNAL_REPORTING"}

\* Results of a control with any score and of a second control with a
\* passing and a failing score, and the orchestrator's markers
\* with the score it gives them (orchestrator.py 164, 172, 198, 216).
ItemKinds ==
    [id : {"A"}, score : Scores]
        \cup [id : {"B"}, score : {Num(1), Num(5)}]
        \cup [id : {"NO_CONTENT", "SKIP_KYC"}, score : {Num(0)}]
        \cup [id : {"EXTRACTION_EMBED_FAILURE", "CATEGORY_FAILURE"}, score : {Num(10)}]

\* Three controls whose worst scores are 2, 6 and 4; one control with the
\* scores 3, 7, -1, 10.
ExampleLists ==
    {<<[id |-> "A", score |-> Num(2)], [id |-> "B", score |-> Num(6)],
       [id |-> "C", score |-> Num(4)]>>,
     <<[id |-> "A", score |-> Num(3)], [id |-> "A", score |-> Num(7)],
       [id |-> "A", score |-> Num(-1)], [id |-> "A", score |-> Num(10)]>>}

\* The k-th result carries result text k, so equal-scored items differ.
WithResultText(l) ==
    [k \in 1..Len(l) |-> [id |-> l[k].id, score |-> l[k].score, result |-> k]]

ResultLists ==
    {WithResultText(l) : l \in SeqsUpTo(ItemKinds, MaxResults) \cup ExampleLists}

\* reporter.py 66-77: group by control id, skipping markers
SkippedInGrouping(id, fail) ==
    \/ ~fail /\ id \in SpecialMarkers
    \/ StartsWithSkip(id)

GroupById(results, fail) ==
    LET kept == SelectSeq(results, LAMBDA it : ~SkippedInGrouping(it.id, fail))
        ids == {kept[k].id : k \in 1..Len(kept)}
    IN  [c \in ids |-> SelectSeq(kept, LAMBDA it : it.id = c)]

\* reporter.py 85-88: current_risk_for_comparison
RiskForComparison(sc) ==
    IF IsNumber(sc) /\ 1 <= sc.v /\ sc.v <= 10 THEN sc.v ELSE 10

\* reporter.py 82-95: the loop over one group; worst is <<>> for None
RECURSIVE WorstLoopLastWins(_, _, _)
WorstLoopLastWins(items, worst, maxv) ==
    IF items = <<>> THEN worst
    ELSE LET item == Head(items)
             cur == RiskForComparison(item.score)
         IN  IF cur >= maxv
             THEN WorstLoopLastWins(Tail(items), <<item>>, cur)
             ELSE WorstLoopLastWins(Tail(items), worst, maxv)

RECURSIVE WorstLoop(_, _, _)
WorstLoop(items, worst, maxv) ==
    IF items = <<>> THEN worst
    ELSE LET item == Head(items)
             cur == RiskForComparison(item.score)
         IN  IF cur >= maxv
             THEN IF cur > maxv \/ worst = <<>>
                  THEN WorstLoop(Tail(items), <<item>>, cur)
                  ELSE WorstLoop(Tail(items), worst, maxv)
             ELSE IF worst = <<>>
                  THEN WorstLoop(Tail(items), <<item>>, maxv)
                  ELSE WorstLoop(Tail(items), worst, maxv)

\* a consolidation that keeps the first item of the group
WorstItemFirstSeen(items) == IF items = <<>> THEN <<>> ELSE <<Head(items)>>

WorstItemLastWins(items) == WorstLoopLastWins(items, <<>>, -1)

WorstItem(items) == WorstLoop(items, <<>>, -1)

\* reporter.py 80-101: consolidated_data (a group without worst item is dropped)
Consolidate(by_id) ==
    [c \in {d \in DOMAIN by_id : WorstItem(by_id[d]) # <<>>} |-> WorstItem(by_id[c])[1]]

\* reporter.py 36: the test that counts a control as passed
SummaryPassInclusive(sc) == IsNumber(sc) /\ 1 <= sc.v /\ sc.v <= PASS_SCORE_THRESHOLD

SummaryPass(sc) == IsNumber(sc) /\ 1 <= sc.v /\ sc.v < PASS_SCORE_THRESHOLD

\* reporter.py 28-43: _calculate_summary
calculate_summary(cons) ==
    LET passed == Cardinality({c \in DOMAIN cons : SummaryPass(cons[c].score)})
        failed == Cardinality({c \in DOMAIN cons : ~SummaryPass(cons[c].score)})
    IN  [kind |-> "counts", passed |-> passed, failed |-> failed,
         total |-> Cardinality(DOMAIN cons)]

\* reporter.py 161-164: status_str of one consolidated entry
StatusStrZeroPasses(sc) ==
    IF IsNumber(sc) /\ 0 <= sc.v /\ sc.v < PASS_SCORE_THRESHOLD THEN "PASS" ELSE "FAIL"

StatusStr(sc) ==
    IF IsNumber(sc) /\ 1 <= sc.v /\ sc.v < PASS_SCORE_THRESHOLD THEN "PASS" ELSE "FAIL"

\* the ids in descending order
SortedIdsDescending(cons) ==
    LET up == SelectSeq(IdOrder, LAMBDA c : c \in DOMAIN cons)
    IN  [k \in 1..Len(up) |-> up[Len(up) + 1 - k]]

\* reporter.py 150: sorted(consolidated_data.items())
SortedIds(cons) == SelectSeq(IdOrder, LAMBDA c : c \in DOMAIN cons)

\* per-control blocks that show the comparison value as the score
ReportEntriesComparisonScore(cons) ==
    LET ids == SortedIds(cons)
    IN  [k \in 1..Len(ids) |->
            [control_id |-> ids[k],
             status |-> StatusStr(cons[ids[k]].score),
             score |-> Num(RiskForComparison(cons[ids[k]].score)),
             result |-> cons[ids[k]].result]]

\* reporter.py 148-173: the per-control blocks of the report
ReportEntries(cons) ==
    LET ids == SortedIds(cons)
    IN  [k \in 1..Len(ids) |->
            [control_id |-> ids[k],
             status |-> StatusStr(cons[ids[k]].score),
             score |-> cons[ids[k]].score,
             result |-> cons[ids[k]].result]]

\* reporter.py 111-133: the summary section
ReportSummary(results, fail, by_id, cons) ==
    IF fail THEN [kind |-> "process_failed", passed |-> 0, failed |-> 0, total |-> 0]
    ELSE IF DOMAIN cons = {} /\ DOMAIN by_id = {}
    THEN [kind |-> "no_controls", passed |-> 0, failed |-> 0, total |-> 0]
    ELSE calculate_summary(cons)

\* reporter.py 138-147: the failure reason written when a failure report has
\* no consolidated entry (0: not written)
FailureDetail(results, fail, cons) ==
    IF fail /\ DOMAIN cons = {} /\ results # <<>> THEN results[1].result ELSE 0

ReportInit ==
    /\ r_results \in ResultLists
    /\ is_failure \in BOOLEAN
    /\ results_by_id = <<>>
    /\ consolidated_data = <<>>
    /\ report = None
    /\ r_path = None
    /\ rpc = "entry"
    /\ ChunkIdle
    /\ GradeIdle
    /\ PipeIdle
    /\ TwoIdle
    /\ ExtractIdle
    /\ SelectIdle

\* reporter.py 62-77
ReportGroup ==
    /\ rpc = "entry"
    /\ results_by_id' = GroupById(r_results, is_failure)
    /\ rpc' = "grouped"
    /\ UNCHANGED <<r_results, is_failure, consolidated_data, report, r_path>>
    /\ UNCHANGED notReport

\* reporter.py 79-101
ReportConsolidate ==
    /\ rpc = "grouped"
    /\ consolidated_data' = Consolidate(results_by_id)
    /\ rpc' = "consolidated"
    /\ UNCHANGED <<r_results, is_failure, results_by_id, report, r_path>>
    /\ UNCHANGED notReport

\* reporter.py 103-178: the report is written and its path returned
ReportWrite ==
    /\ rpc = "consolidated"
    /\ report' = [is_failure |-> is_failure,
                  summary |-> ReportSummary(r_results, is_failure, results_by_id,
                                            consolidated_data),
                  failure_detail |-> FailureDetail(r_results, is_failure, consolidated_data),
                  entries |-> ReportEntries(consolidated_data)]
    /\ r_path' = "report_path"
    /\ rpc' = "done"
    /\ UNCHANGED <<r_results, is_failure, results_by_id, consolidated_data>>
    /\ UNCHANGED notReport

\* reporter.py 180-182: writing raised, "" is returned
ReportWriteFails ==
    /\ rpc = "consolidated"
    /\ r_path' = ""
    /\ rpc' = "done"
    /\ UNCHANGED <<r_results, is_failure, results_by_id, consolidated_data, report>>
    /\ UNCHANGED notReport

ReportNext == ReportGroup \/ ReportConsolidate \/ ReportWrite \/ ReportWriteFails

SpecReport == ReportInit /\ [][ReportNext]_vars

\* The comparison value as the consolidation rule states it
ComparisonValue(sc) == IF IsNumber(sc) /\ sc.v > 0 THEN sc.v ELSE 10

ItemsOf(c) == SelectSeq(r_results, LAMBDA it : it.id = c)

MaxComparisonValue(items) ==
    CHOOSE m \in 1..10 :
        /\ \E k \in 1..Len(items) : ComparisonValue(items[k].score) = m
        /\ \A k \in 1..Len(items) : ComparisonValue(items[k].score) <= m

EarliestWithValue(items, m) ==
    CHOOSE k \in 1..Len(items) :
        /\ ComparisonValue(items[k].score) = m
        /\ \A j \in 1..(k - 1) : ComparisonValue(items[j].score) # m

Reported == rpc = "done" /\ r_path = "report_path"

\* C4: for each control id that is not skipped, consolidation keeps the item
\* with the maximum comparison value v (v = score for a number > 0, else 10),
\* the earliest one among equals; a group without a validly scored item is
\* represented by its first item.
C4_WorstEarliest ==
    (rpc \in {"consolidated", "done"}) =>
        /\ DOMAIN consolidated_data =
               {r_results[k].id : k \in {j \in 1..Len(r_results) :
                    ~SkippedInGrouping(r_results[j].id, is_failure)}}
        /\ \A c \in DOMAIN consolidated_data :
               LET items == ItemsOf(c)
                   m == MaxComparisonValue(items)
               IN  /\ consolidated_data[c] = items[EarliestWithValue(items, m)]
                   /\ (\A k \in 1..Len(items) :
                           ~(IsNumber(items[k].score) /\ items[k].score.v > 0))
                        => consolidated_data[c] = items[1]

\* C4 witness: one control with scores 4, 10, -1 in that order: the maximum
\* comparison value 10 occurs twice and the earlier item (the second) is kept.
C4_Witness ==
    /\ rpc = "done"
    /\ Len(r_results) = 3
    /\ \A k \in 1..3 : r_results[k].id = "A"
    /\ r_results[1].score = Num(4)
    /\ r_results[2].score = Num(10)
    /\ r_results[3].score = Num(-1)
    /\ consolidated_data["A"].result = 2

InPassRange(sc) == sc.k = "int" /\ sc.v >= 1 /\ sc.v < 5

\* C5: an entry of the report is PASS iff its score is a number with
\* 1 <= score < 5 and FAIL otherwise, in the per-control status line and in
\* the passed/failed counts of the summary alike.
C5_PassFailBoundary ==
    Reported =>
        /\ \A k \in 1..Len(report.entries) :
               /\ report.entries[k].status \in {"PASS", "FAIL"}
               /\ report.entries[k].status = "PASS" <=> InPassRange(report.entries[k].score)
        /\ (report.summary.kind = "counts") =>
               /\ report.summary.passed =
                      Cardinality({c \in DOMAIN consolidated_data :
                                      InPassRange(consolidated_data[c].score)})
               /\ report.summary.failed =
                      Cardinality({c \in DOMAIN consolidated_data :
                                      ~InPassRange(consolidated_data[c].score)})

\* C5 witness: a report with a control at score 4 (PASS) and one at score 5
\* (FAIL), counted as one passed and one failed.
C5_Witness ==
    /\ Reported
    /\ ~is_failure
    /\ Len(report.entries) = 2
    /\ report.entries[1].score = Num(4) /\ report.entries[1].status = "PASS"
    /\ report.entries[2].score = Num(5) /\ report.entries[2].status = "FAIL"
    /\ report.summary.passed = 1
    /\ report.summary.failed = 1

\* C6: in a non-failure report, passed is the number of entries whose status
\* line says PASS, total is the number of unique control ids consolidated,
\* and passed + failed = total.
C6_SummaryArithmetic ==
    (Reported /\ ~is_failure) =>
        /\ report.summary.kind \in {"counts", "no_controls"}
        /\ report.summary.passed =
               Cardinality({k \in 1..Len(report.entries) : report.entries[k].status = "PASS"})
        /\ report.summary.total = Cardinality(DOMAIN consolidated_data)
        /\ report.summary.total = Len(report.entries)
        /\ report.summary.passed + report.summary.failed = report.summary.total

\* C6 witness: three controls with worst scores 2, 6 and 4 give 2 out of 3.
C6_Witness ==
    /\ Reported
    /\ ~is_failure
    /\ Len(report.entries) = 3
    /\ report.entries[1].score = Num(2)
    /\ report.entries[2].score = Num(6)
    /\ report.entries[3].score = Num(4)
    /\ report.summary.passed = 2
    /\ report.summary.total = 3

(***************************************************************************)
(* OrchestratorAgent.run_control_chain  (orchestrator.py 129-274) and the  *)
(* agents it calls: ExtractorAgent.run, SelectorAgent.run,                 *)
(* ControllerAgent.run, GraderAgent.run, ReporterAgent.run                 *)
(***************************************************************************)
MaxPathDirs == 2
MaxChunks == 1
MaxPrompts == 1

\* controller.py 25: N_RELEVANT_CHUNKS, default of the environment variable
N_RELEVANT_CHUNKS == 3

\* orchestrator.py 27-28: the default list, in its order
KNOWN_META_CATEGORIES == <<"KYC", "RGPD", "LCBFT", "MIFID", "RSE", "INTERNAL_REPORTING">>

Range(f) == {f[i] : i \in DOMAIN f}

\* str.lower() and str.upper() on the names that occur
Lower(s) ==
    CASE s = "KYC" \/ s = "Kyc" -> "kyc"
      [] s = "RGPD" \/ s = "Rgpd" -> "rgpd"
      [] s = "LCBFT" -> "lcbft"
      [] s = "MIFID" -> "mifid"
      [] s = "RSE" -> "rse"
      [] s = "INTERNAL_REPORTING" -> "internal_reporting"
      [] s = "BOGUS" -> "bogus"
      [] OTHER -> s

Upper(s) ==
    CASE s = "kyc" \/ s = "Kyc" -> "KYC"
      [] s = "rgpd" \/ s = "Rgpd" -> "RGPD"
      [] s = "bogus" -> "BOGUS"
      [] s = "docs" -> "DOCS"
      [] OTHER -> s

\* the arguments of run_control_chain
SpecifiedCategories == {None, "kyc", "bogus"}
DirNames == {"docs", "Kyc", "rgpd"}
\* paths of up to MaxPathDirs directories with different names
DocumentPaths ==
    {p \in SeqsUpTo(DirNames, MaxPathDirs) : \A i, j \in DOMAIN p : i # j => p[i] # p[j]}

\* a chunk text is the sequence of its words
Words == {"hello", "kyc", "gdpr", "seamless"}
FirstChunkTexts == {<<"hello">>, <<"gdpr", "kyc">>, <<"seamless", "gdpr">>}

\* the first entry of seq, in order, that is in the set hits; "" when none
RECURSIVE FirstIn(_, _)
FirstIn(seq, hits) ==
    IF seq = <<>> THEN ""
    ELSE IF Head(seq) \in hits THEN Head(seq)
    ELSE FirstIn(Tail(seq), hits)

\* orchestrator.py 142-148: the specified category, upper-cased, when known
ExplicitCategory(specified) ==
    IF specified # None /\ specified # "" /\ Upper(specified) \in Range(KNOWN_META_CATEGORIES)
    THEN Upper(specified)
    ELSE ""

\* orchestrator.py 78-84: the immediate parent directory name
ParentCategory(path) ==
    LET parent_dir_name == IF path = <<>> THEN "" ELSE path[Len(path)]
    IN  FirstIn(KNOWN_META_CATEGORIES,
                {c \in Range(KNOWN_META_CATEGORIES) : Lower(parent_dir_name) = Lower(c)})

\* orchestrator.py 87-92: "/<category>/" anywhere in the lower-cased path
AnywhereCategory(path) ==
    FirstIn(KNOWN_META_CATEGORIES,
            {c \in Range(KNOWN_META_CATEGORIES) : \E i \in DOMAIN path : Lower(path[i]) = Lower(c)})

determine_category_from_path_anywhere_first(path) ==
    IF AnywhereCategory(path) # "" THEN AnywhereCategory(path) ELSE ParentCategory(path)

\* orchestrator.py 69-98
determine_category_from_path(path) ==
    IF ParentCategory(path) # "" THEN ParentCategory(path) ELSE AnywhereCategory(path)

\* orchestrator.py 34-41: CATEGORY_KEYWORDS in its order; for each category
\* the words in which re.search finds one of its patterns
\* ("aml" is found inside "seamless")
CATEGORY_KEYWORDS ==
    << [category |-> "KYC", found_in |-> {"kyc"}],
       [category |-> "RGPD", found_in |-> {"gdpr"}],
       [category |-> "LCBFT", found_in |-> {"seamless"}],
       [category |-> "MIFID", found_in |-> {}],
       [category |-> "RSE", found_in |-> {}],
       [category |-> "INTERNAL_REPORTING", found_in |-> {}] >>

KeywordOrder == [i \in DOMAIN CATEGORY_KEYWORDS |-> CATEGORY_KEYWORDS[i].category]

KeywordHits(text_chunk) ==
    {CATEGORY_KEYWORDS[i].category : i \in
        {j \in DOMAIN CATEGORY_KEYWORDS :
            /\ CATEGORY_KEYWORDS[j].category \in Range(KNOWN_META_CATEGORIES)
            /\ \E k \in DOMAIN text_chunk : text_chunk[k] \in CATEGORY_KEYWORDS[j].found_in}}

determine_category_from_content_defaulting(text_chunk) ==
    IF KeywordHits(text_chunk) = {} THEN KNOWN_META_CATEGORIES[1]
    ELSE FirstIn(KeywordOrder, KeywordHits(text_chunk))

\* orchestrator.py 100-127
determine_category_from_content(text_chunk) ==
    IF text_chunk = <<>> THEN ""
    ELSE FirstIn(KeywordOrder, KeywordHits(text_chunk))

\* extractor.py 346: the name of the collection of this run
CollectionName == "doc_1"

\* what ExtractorAgent.run can return as error before any collection exists
\* (extractor.py 285-296, 313-320, 336-343)
ExtractErrors ==
    {"file_not_found", "openai_client_missing", "chroma_client_missing",
     "unsupported_type", "extraction_failed", "embedding_failed", "embedding_mismatch"}

\* the valid prompt files SelectorAgent.run can return (selector.py 27-77):
\* prompt_instructions is a non-empty list, of strings or not
PromptKinds ==
    {[file |-> "a", control_id |-> "A", instr |-> "strs"],
     [file |-> "b", control_id |-> "B", instr |-> "nonstr"]}
PromptFileLists == SeqsUpTo(PromptKinds, MaxPrompts)

\* controller.py 93-101: the load errors
LoadErrors == {"file_missing", "instructions_missing"}

\* chunk ids as extractor.py 357 names them
ChunkId(i) == CASE i = 0 -> "chunk_0" [] i = 1 -> "chunk_1" [] i = 2 -> "chunk_2" [] OTHER -> "chunk_3"

\* a query that returns every chunk of the collection
RetrievalsUnlimited(n) ==
    {[i \in 1..k |-> ChunkId(i - 1)] : k \in 1..n}

\* what vector_collection.query can return as ids: the k nearest chunks,
\* 1 <= k <= N_RELEVANT_CHUNKS, nearest first.  Which chunks are nearest does
\* not influence any later step; the k nearest are named chunk_0 .. chunk_(k-1).
Retrievals(n) ==
    {[i \in 1..k |-> ChunkId(i - 1)] : k \in 1..Min(N_RELEVANT_CHUNKS, n)}

\* result dictionaries
ControlResult(id, chunk_id, result, instr) ==
    [id |-> id, chunk_id |-> chunk_id, result |-> result, instr |-> instr, score |-> Missing]

Sentinel(id, score) ==
    [id |-> id, chunk_id |-> None, result |-> "message", instr |-> "strs", score |-> Num(score)]

\* the path ReporterAgent.run returns: "" when writing the file failed
\* (reporter.py 175-182)
ReportPaths == {"report_path", ""}

ReporterCall(results, fail, path) == [results |-> results, is_failure |-> fail, path |-> path]

Returned(results, has_results, path) ==
    <<[has_results |-> has_results, results |-> results, report_path |-> path]>>

\* what the grading model does per item in a run of the chain
ChainResponses ==
    {[kind |-> "raises", content |-> <<>>], [kind |-> "content", content |-> <<"1">>]}

VC == vector_collection[1]

\* extractor.chroma_client.delete_collection(name): removes the collection,
\* or raises and leaves it
DeleteCollection(ok) == IF ok THEN store \ {CollectionName} ELSE store

Init ==
    /\ pc = "start"
    /\ specified_meta_category \in SpecifiedCategories
    /\ document_path \in DocumentPaths
    /\ meta_category = ""
    /\ vector_collection = <<>>
    /\ extraction_error_msg = None
    /\ store = {}
    /\ first_chunk = <<>>
    /\ n_chunks = 0
    /\ peeked = None
    /\ prompt_files = <<>>
    /\ p_i = 0
    /\ detailed_results = <<>>
    /\ per_control = <<>>
    /\ log = <<>>
    /\ reports = <<>>
    /\ ret = <<>>
    /\ ChunkIdle
    /\ GradeIdle
    /\ ReportIdle
    /\ TwoIdle
    /\ ExtractIdle
    /\ SelectIdle

\* orchestrator.py 140-152: explicit category, else path detection
DetermineCategory ==
    /\ pc = "start"
    /\ IF ExplicitCategory(specified_meta_category) # ""
       THEN /\ meta_category' = ExplicitCategory(specified_meta_category)
            /\ UNCHANGED log
       ELSE /\ meta_category' = determine_category_from_path(document_path)
            /\ log' = Append(log, "path_detection")
    /\ pc' = "extract"
    /\ UNCHANGED <<specified_meta_category, document_path, vector_collection,
                   extraction_error_msg, store, first_chunk, n_chunks, peeked,
                   prompt_files, p_i, detailed_results, reports, ret,
                   per_control>>
    /\ UNCHANGED notPipe

\* orchestrator.py 157 with extractor.py 285-343: an error before any
\* collection is created
ExtractError ==
    /\ pc = "extract"
    /\ \E e \in ExtractErrors : extraction_error_msg' = e
    /\ vector_collection' = <<>>
    /\ pc' = "extracted"
    /\ UNCHANGED <<specified_meta_category, document_path, meta_category, store,
                   first_chunk, n_chunks, peeked, prompt_files, p_i,
                   detailed_results, log, reports, ret,
                   per_control>>
    /\ UNCHANGED notPipe

\* orchestrator.py 157 with extractor.py 321-332: no content, no chunks
ExtractNoContent ==
    /\ pc = "extract"
    /\ extraction_error_msg' = None
    /\ vector_collection' = <<>>
    /\ pc' = "extracted"
    /\ UNCHANGED <<specified_meta_category, document_path, meta_category, store,
                   first_chunk, n_chunks, peeked, prompt_files, p_i,
                   detailed_results, log, reports, ret,
                   per_control>>
    /\ UNCHANGED notPipe

\* orchestrator.py 157 with extractor.py 346-380: get_or_create_collection or
\* add raises; the cleanup delete is attempted and may itself raise
ExtractChromaError ==
    /\ pc = "extract"
    /\ \E created \in BOOLEAN, cleanup_ok \in BOOLEAN :
        /\ store' = IF created /\ ~cleanup_ok THEN store \cup {CollectionName} ELSE store
        /\ log' = log \o (IF created THEN <<"create", "add_raised", "delete">>
                                      ELSE <<"create_raised", "delete">>)
    /\ extraction_error_msg' = "chroma_error"
    /\ vector_collection' = <<>>
    /\ pc' = "extracted"
    /\ UNCHANGED <<specified_meta_category, document_path, meta_category,
                   first_chunk, n_chunks, peeked, prompt_files, p_i,
                   detailed_results, reports, ret,
                   per_control>>
    /\ UNCHANGED notPipe

\* an extractor that returns the collection it created without adding to it
ExtractOkWithoutAdd ==
    /\ pc = "extract"
    /\ \E n \in 1..MaxChunks, t \in FirstChunkTexts, is_collection \in BOOLEAN :
        /\ n_chunks' = n
        /\ first_chunk' = t
        /\ vector_collection' = <<[name |-> CollectionName, is_collection |-> is_collection]>>
    /\ store' = store \cup {CollectionName}
    /\ log' = log \o <<"create">>
    /\ extraction_error_msg' = None
    /\ pc' = "extracted"
    /\ UNCHANGED <<specified_meta_category, document_path, meta_category, peeked,
                   prompt_files, p_i, detailed_results, reports, ret,
                   per_control>>
    /\ UNCHANGED notPipe

\* orchestrator.py 157 with extractor.py 346-369: the collection is created,
\* all chunks are added in one call, the collection is returned
ExtractOk ==
    /\ pc = "extract"
    /\ \E n \in 1..MaxChunks, t \in FirstChunkTexts, is_collection \in BOOLEAN :
        /\ n_chunks' = n
        /\ first_chunk' = t
        /\ vector_collection' = <<[name |-> CollectionName, is_collection |-> is_collection]>>
    /\ store' = store \cup {CollectionName}
    /\ log' = log \o <<"create", "add">>
    /\ extraction_error_msg' = None
    /\ pc' = "extracted"
    /\ UNCHANGED <<specified_meta_category, document_path, meta_category, peeked,
                   prompt_files, p_i, detailed_results, reports, ret,
                   per_control>>
    /\ UNCHANGED notPipe

\* orchestrator.py 160-166
ExtractionFailure ==
    /\ pc = "extracted"
    /\ extraction_error_msg # None
    /\ \E path \in ReportPaths :
        /\ reports' = Append(reports,
              ReporterCall(<<Sentinel("EXTRACTION_EMBED_FAILURE", 10)>>, TRUE, path))
        /\ ret' = Returned(<<>>, FALSE, path)
    /\ log' = Append(log, "report")
    /\ pc' = "returned"
    /\ UNCHANGED <<specified_meta_category, document_path, meta_category,
                   vector_collection, extraction_error_msg, store, first_chunk,
                   n_chunks, peeked, prompt_files, p_i, detailed_results,
                   per_control>>
    /\ UNCHANGED notPipe

\* orchestrator.py 168-175
NoContent ==
    /\ pc = "extracted"
    /\ extraction_error_msg = None
    /\ vector_collection = <<>>
    /\ detailed_results' = <<Sentinel("NO_CONTENT", 0)>>
    /\ \E path \in ReportPaths :
        /\ reports' = Append(reports, ReporterCall(detailed_results', FALSE, path))
        /\ ret' = Returned(detailed_results', TRUE, path)
    /\ log' = Append(log, "report")
    /\ pc' = "returned"
    /\ UNCHANGED <<specified_meta_category, document_path, meta_category,
                   vector_collection, extraction_error_msg, store, first_chunk,
                   n_chunks, peeked, prompt_files, p_i,
                   per_control>>
    /\ UNCHANGED notPipe

\* orchestrator.py 178-192: content detection on the first chunk; peek may
\* raise or return nothing, and both leave the category empty
ContentDetection ==
    /\ pc = "extracted"
    /\ extraction_error_msg = None
    /\ vector_collection # <<>>
    /\ meta_category = ""
    /\ \E outcome \in {"raises", "empty", "documents"} :
        /\ peeked' = outcome
        /\ meta_category' = IF outcome = "documents"
                            THEN determine_category_from_content(first_chunk)
                            ELSE ""
    /\ log' = Append(log, "peek")
    /\ pc' = "category_check"
    /\ UNCHANGED <<specified_meta_category, document_path, vector_collection,
                   extraction_error_msg, store, first_chunk, n_chunks,
                   prompt_files, p_i, detailed_results, reports, ret,
                   per_control>>
    /\ UNCHANGED notPipe

\* orchestrator.py 178: the category is already known, no peek
ContentDetectionSkipped ==
    /\ pc = "extracted"
    /\ extraction_error_msg = None
    /\ vector_collection # <<>>
    /\ meta_category # ""
    /\ pc' = "category_check"
    /\ UNCHANGED <<specified_meta_category, document_path, meta_category,
                   vector_collection, extraction_error_msg, store, first_chunk,
                   n_chunks, peeked, prompt_files, p_i, detailed_results, log,
                   reports, ret,
                   per_control>>
    /\ UNCHANGED notPipe

\* a category failure that returns without deleting the collection
CategoryFailureWithoutDelete ==
    /\ pc = "category_check"
    /\ meta_category = ""
    /\ \E path \in ReportPaths :
        /\ reports' = Append(reports,
              ReporterCall(<<Sentinel("CATEGORY_FAILURE", 10)>>, TRUE, path))
        /\ ret' = Returned(<<>>, FALSE, path)
    /\ log' = log \o <<"report">>
    /\ pc' = "returned"
    /\ UNCHANGED <<specified_meta_category, document_path, meta_category,
                   vector_collection, extraction_error_msg, store, first_chunk,
                   n_chunks, peeked, prompt_files, p_i, detailed_results,
                   per_control>>
    /\ UNCHANGED notPipe

\* orchestrator.py 195-206: the failure report, then the delete in its try
CategoryFailure ==
    /\ pc = "category_check"
    /\ meta_category = ""
    /\ \E path \in ReportPaths :
        /\ reports' = Append(reports,
              ReporterCall(<<Sentinel("CATEGORY_FAILURE", 10)>>, TRUE, path))
        /\ ret' = Returned(<<>>, FALSE, path)
    /\ \E ok \in BOOLEAN : store' = DeleteCollection(ok)
    /\ log' = log \o <<"report", "delete">>
    /\ pc' = "returned"
    /\ UNCHANGED <<specified_meta_category, document_path, meta_category,
                   vector_collection, extraction_error_msg, first_chunk,
                   n_chunks, peeked, prompt_files, p_i, detailed_results,
                   per_control>>
    /\ UNCHANGED notPipe

\* orchestrator.py 211-212 with selector.py 51-77
SelectPrompts ==
    /\ pc = "category_check"
    /\ meta_category # ""
    /\ prompt_files' \in PromptFileLists
    /\ log' = Append(log, "select")
    /\ pc' = "selected"
    /\ UNCHANGED <<specified_meta_category, document_path, meta_category,
                   vector_collection, extraction_error_msg, store, first_chunk,
                   n_chunks, peeked, p_i, detailed_results, reports, ret,
                   per_control>>
    /\ UNCHANGED notPipe

\* orchestrator.py 213-225: the skip report, then the delete in its try
NoPrompts ==
    /\ pc = "selected"
    /\ prompt_files = <<>>
    /\ detailed_results' = <<Sentinel("SKIP_" \o meta_category, 0)>>
    /\ \E path \in ReportPaths :
        /\ reports' = Append(reports, ReporterCall(detailed_results', FALSE, path))
        /\ ret' = Returned(detailed_results', TRUE, path)
    /\ \E ok \in BOOLEAN : store' = DeleteCollection(ok)
    /\ log' = log \o <<"report", "delete">>
    /\ pc' = "returned"
    /\ UNCHANGED <<specified_meta_category, document_path, meta_category,
                   vector_collection, extraction_error_msg, first_chunk,
                   n_chunks, peeked, prompt_files, p_i,
                   per_control>>
    /\ UNCHANGED notPipe

\* orchestrator.py 228-238: the object is not a chromadb.Collection; the
\* delete in its try, then the failure report
TypeCheckFailure ==
    /\ pc = "selected"
    /\ prompt_files # <<>>
    /\ ~VC.is_collection
    /\ \E ok \in BOOLEAN : store' = DeleteCollection(ok)
    /\ \E path \in ReportPaths :
        /\ reports' = Append(reports,
              ReporterCall(<<Sentinel("INTERNAL_ERROR", 10)>>, TRUE, path))
        /\ ret' = Returned(<<>>, FALSE, path)
    /\ log' = log \o <<"delete", "report">>
    /\ pc' = "returned"
    /\ UNCHANGED <<specified_meta_category, document_path, meta_category,
                   vector_collection, extraction_error_msg, first_chunk,
                   n_chunks, peeked, prompt_files, p_i, detailed_results,
                   per_control>>
    /\ UNCHANGED notPipe

Prompt == prompt_files[p_i + 1]

\* orchestrator.py 244 with controller.py 69-71: the controller has no
\* embedding client and returns the single CONTROLLER_ERROR result
ControllerClientMissing ==
    /\ pc = "selected"
    /\ prompt_files # <<>>
    /\ VC.is_collection
    /\ detailed_results' = <<ControlResult("CONTROLLER_ERROR", "N/A", "not_configured", "strs")>>
    /\ log' = Append(log, "controller")
    /\ pc' = "controlled"
    /\ UNCHANGED <<specified_meta_category, document_path, meta_category,
                   vector_collection, extraction_error_msg, store, first_chunk,
                   n_chunks, peeked, prompt_files, p_i, reports, ret,
                   per_control>>
    /\ UNCHANGED notPipe

\* orchestrator.py 244 with controller.py 73-74: the loop over prompt_files starts
ControllerStart ==
    /\ pc = "selected"
    /\ prompt_files # <<>>
    /\ VC.is_collection
    /\ detailed_results' = <<>>
    /\ per_control' = <<>>
    /\ p_i' = 0
    /\ log' = Append(log, "controller")
    /\ pc' = "controller"
    /\ UNCHANGED <<specified_meta_category, document_path, meta_category,
                   vector_collection, extraction_error_msg, store, first_chunk,
                   n_chunks, peeked, prompt_files, reports, ret>>
    /\ UNCHANGED notPipe

\* one completed iteration of the loop over prompt_files (controller.py
\* 76-223): the control id, the load error (None: loaded), the calls made,
\* the ids the query returned, what each model call did, the results appended
Iteration(id, load_error, made, retrieved_ids, llm, results) ==
    [id |-> id, load_error |-> load_error, calls |-> made,
     retrieved_ids |-> retrieved_ids, llm |-> llm, results |-> results]

\* the iteration's results are appended and the loop moves to the next file
Completes(it) ==
    /\ detailed_results' = detailed_results \o it.results
    /\ per_control' = Append(per_control, it)
    /\ log' = log \o it.calls
    /\ p_i' = p_i + 1
    /\ UNCHANGED <<pc, specified_meta_category, document_path, meta_category,
                   vector_collection, extraction_error_msg, store, first_chunk,
                   n_chunks, peeked, prompt_files, reports, ret>>
    /\ UNCHANGED notPipe

\* controller.py 78: the file's base name, the control id until the JSON is read
LoadErrorId(e) == IF e = "instructions_missing" THEN Prompt.control_id ELSE Prompt.file

\* a load error after which the embedding is still requested
ControllerLoadErrorThenEmbeds ==
    /\ pc = "controller"
    /\ p_i < Len(prompt_files)
    /\ \E e \in LoadErrors :
        Completes(Iteration(LoadErrorId(e), e, <<"embed">>, <<>>, <<>>,
            <<ControlResult(LoadErrorId(e), "EMBEDDING_ERROR", "embedding_failed", "strs")>>))

\* controller.py 77-112: the prompt file does not load (it changed since the
\* selector validated it); one PROMPT_LOAD_ERROR result, next control.
\* control_id stays the file's base name unless the JSON was read.
ControllerLoadError ==
    /\ pc = "controller"
    /\ p_i < Len(prompt_files)
    /\ \E e \in LoadErrors :
        Completes(Iteration(LoadErrorId(e), e, <<>>, <<>>, <<>>,
            <<ControlResult(LoadErrorId(e), "PROMPT_LOAD_ERROR", e, "strs")>>))

\* controller.py 115-129: no query embedding; one EMBEDDING_ERROR result
ControllerEmbeddingError ==
    /\ pc = "controller"
    /\ p_i < Len(prompt_files)
    /\ Completes(Iteration(Prompt.control_id, None, <<"embed">>, <<>>, <<>>,
            <<ControlResult(Prompt.control_id, "EMBEDDING_ERROR", "embedding_failed", Prompt.instr)>>))

\* controller.py 132-151: the query raises; one QUERY_ERROR result
ControllerQueryError ==
    /\ pc = "controller"
    /\ p_i < Len(prompt_files)
    /\ Completes(Iteration(Prompt.control_id, None, <<"embed", "query">>, <<>>, <<>>,
            <<ControlResult(Prompt.control_id, "QUERY_ERROR", "query_failed", Prompt.instr)>>))

\* controller.py 153-176: the query returned a result that cannot be
\* unpacked (None, the case line 139 tests for, or lists of unequal length);
\* lines 155-157 and 174-176 are outside every try, the exception leaves
\* ControllerAgent.run and, uncaught at orchestrator.py 244,
\* run_control_chain
ControllerQueryResultUnusable ==
    /\ pc = "controller"
    /\ p_i < Len(prompt_files)
    /\ log' = log \o <<"embed", "query">>
    /\ pc' = "raised"
    /\ UNCHANGED <<specified_meta_category, document_path, meta_category,
                   vector_collection, extraction_error_msg, store, first_chunk,
                   n_chunks, peeked, prompt_files, p_i, detailed_results,
                   per_control, reports, ret>>
    /\ UNCHANGED notPipe

\* controller.py 155-170: no id retrieved; one NO_RELEVANT_CHUNKS result
ControllerNoRelevantChunks ==
    /\ pc = "controller"
    /\ p_i < Len(prompt_files)
    /\ Completes(Iteration(Prompt.control_id, None, <<"embed", "query">>, <<>>, <<>>,
            <<ControlResult(Prompt.control_id, "NO_RELEVANT_CHUNKS", "no_chunks", Prompt.instr)>>))

\* what the model call of controller.py 198 can do
LLMOutcomes == {"content", "llm_failed"}

\* index of the first failed model call, 0 when none failed
FirstFailure(llm) ==
    IF \E i \in DOMAIN llm : llm[i] = "llm_failed"
    THEN CHOOSE i \in DOMAIN llm :
            /\ llm[i] = "llm_failed"
            /\ \A j \in 1..(i - 1) : llm[j] # "llm_failed"
    ELSE 0

\* a chunk loop that a failed model call ends
EvaluatedUntilFailure(retrieved_ids, llm) ==
    IF FirstFailure(llm) = 0 THEN DOMAIN retrieved_ids ELSE 1..(FirstFailure(llm) - 1)

\* controller.py 173-223: every retrieved chunk is evaluated, the try of
\* lines 179-213 keeps a failed model call inside its iteration
Evaluated(retrieved_ids, llm) == DOMAIN retrieved_ids

\* controller.py 173-223: one result per retrieved chunk; a failing model
\* call leaves an error text as that chunk's result
ControllerApply ==
    /\ pc = "controller"
    /\ p_i < Len(prompt_files)
    /\ \E retrieved_ids \in Retrievals(n_chunks) :
       \E llm \in [DOMAIN retrieved_ids -> LLMOutcomes] :
        Completes(Iteration(Prompt.control_id, None,
            <<"embed", "query">> \o [i \in Evaluated(retrieved_ids, llm) |-> "llm"],
            retrieved_ids, llm,
            [i \in Evaluated(retrieved_ids, llm) |->
                ControlResult(Prompt.control_id, retrieved_ids[i], llm[i], Prompt.instr)]))

\* controller.py 227-228
ControllerReturn ==
    /\ pc = "controller"
    /\ p_i = Len(prompt_files)
    /\ pc' = "controlled"
    /\ UNCHANGED <<specified_meta_category, document_path, meta_category,
                   vector_collection, extraction_error_msg, store, first_chunk,
                   n_chunks, peeked, prompt_files, p_i, detailed_results, log,
                   reports, ret,
                   per_control>>
    /\ UNCHANGED notPipe

\* a delete after the controller whose exception is not caught
CleanupCollectionFatal ==
    /\ pc = "controlled"
    /\ \E ok \in BOOLEAN :
        /\ store' = DeleteCollection(ok)
        /\ pc' = IF ok THEN "cleaned" ELSE "raised"
    /\ log' = Append(log, "delete")
    /\ UNCHANGED <<specified_meta_category, document_path, meta_category,
                   vector_collection, extraction_error_msg, first_chunk,
                   n_chunks, peeked, prompt_files, p_i, detailed_results,
                   reports, ret, per_control>>
    /\ UNCHANGED notPipe

\* orchestrator.py 249-257: the delete after the controller, in its try
CleanupCollection ==
    /\ pc = "controlled"
    /\ \E ok \in BOOLEAN : store' = DeleteCollection(ok)
    /\ log' = Append(log, "delete")
    /\ pc' = "cleaned"
    /\ UNCHANGED <<specified_meta_category, document_path, meta_category,
                   vector_collection, extraction_error_msg, first_chunk,
                   n_chunks, peeked, prompt_files, p_i, detailed_results,
                   reports, ret,
                   per_control>>
    /\ UNCHANGED notPipe

Joinable(results) == \A i \in DOMAIN results : results[i].instr = "strs"

\* orchestrator.py 260-267 with grader.py 40-107: every item gets a score
GradeResults ==
    /\ pc = "cleaned"
    /\ Joinable(detailed_results)
    /\ IF detailed_results = <<>>
       THEN detailed_results' = <<Sentinel("FAIL_CONTROLLER_" \o meta_category, 10)>>
       ELSE \E resp \in [DOMAIN detailed_results -> ChainResponses] :
               detailed_results' = [i \in DOMAIN detailed_results |->
                   [detailed_results[i] EXCEPT !.score = Num(GradeScore(resp[i]))]]
    /\ log' = Append(log, "grade")
    /\ pc' = "graded"
    /\ UNCHANGED <<specified_meta_category, document_path, meta_category,
                   vector_collection, extraction_error_msg, store, first_chunk,
                   n_chunks, peeked, prompt_files, p_i, reports, ret,
                   per_control>>
    /\ UNCHANGED notPipe

\* orchestrator.py 267 with grader.py 64: an item's instructions are not
\* strings, the join raises outside the try and the exception leaves
\* GraderAgent.run and run_control_chain
GradeRaises ==
    /\ pc = "cleaned"
    /\ ~Joinable(detailed_results)
    /\ log' = Append(log, "grade")
    /\ pc' = "raised"
    /\ UNCHANGED <<specified_meta_category, document_path, meta_category,
                   vector_collection, extraction_error_msg, store, first_chunk,
                   n_chunks, peeked, prompt_files, p_i, detailed_results,
                   reports, ret,
                   per_control>>
    /\ UNCHANGED notPipe

\* orchestrator.py 271-274
WriteReport ==
    /\ pc = "graded"
    /\ \E path \in ReportPaths :
        /\ reports' = Append(reports, ReporterCall(detailed_results, FALSE, path))
        /\ ret' = Returned(detailed_results, TRUE, path)
    /\ log' = Append(log, "report")
    /\ pc' = "returned"
    /\ UNCHANGED <<specified_meta_category, document_path, meta_category,
                   vector_collection, extraction_error_msg, store, first_chunk,
                   n_chunks, peeked, prompt_files, p_i, detailed_results,
                   per_control>>
    /\ UNCHANGED notPipe

Next ==
    \/ DetermineCategory
    \/ ExtractError
    \/ ExtractNoContent
    \/ ExtractChromaError
    \/ ExtractOk
    \/ ExtractionFailure
    \/ NoContent
    \/ ContentDetection
    \/ ContentDetectionSkipped
    \/ CategoryFailure
    \/ SelectPrompts
    \/ NoPrompts
    \/ TypeCheckFailure
    \/ ControllerClientMissing
    \/ ControllerStart
    \/ ControllerLoadError
    \/ ControllerEmbeddingError
    \/ ControllerQueryError
    \/ ControllerQueryResultUnusable
    \/ ControllerNoRelevantChunks
    \/ ControllerApply
    \/ ControllerReturn
    \/ CleanupCollection
    \/ GradeResults
    \/ GradeRaises
    \/ WriteReport

Spec == Init /\ [][Next]_vars

(***************************************************************************)
(* Properties of run_control_chain                                         *)
(***************************************************************************)
Stopped == pc \in {"returned", "raised"}

Logged(op) == \E i \in DOMAIN log : log[i] = op

\* C1: whenever ExtractorAgent.run returned a collection, delete_collection
\* has been invoked with its name by the time run_control_chain stops, on
\* every exit path, an exception raised in the controller included.
C1_DeleteOnEveryExit ==
    (Stopped /\ vector_collection # <<>>) => Logged("delete")

\* C2: every execution of run_control_chain ends by returning normally, after
\* exactly one ReporterAgent.run call, whatever failures occurred.
C2_ReturnsAfterOneReport ==
    Stopped => (pc = "returned" /\ Len(reports) = 1)

\* the known categories a name equals, case ignored
KnownIgnoringCase(name) ==
    IF name = None THEN {}
    ELSE {c \in Range(KNOWN_META_CATEGORIES) : Lower(c) = Lower(name)}

ExplicitStage == KnownIgnoringCase(specified_meta_category)

ParentStage ==
    IF document_path = <<>> THEN {} ELSE KnownIgnoringCase(document_path[Len(document_path)])

AnywhereStage == UNION {KnownIgnoringCase(document_path[i]) : i \in DOMAIN document_path}

\* the content stage: the first category of the keyword table found in the
\* first chunk, when the peek returned it
ContentStage ==
    IF peeked = "documents"
    THEN LET hits == {i \in DOMAIN CATEGORY_KEYWORDS :
                         \E k \in DOMAIN first_chunk :
                             first_chunk[k] \in CATEGORY_KEYWORDS[i].found_in}
         IN  IF hits = {} THEN ""
             ELSE CATEGORY_KEYWORDS[CHOOSE i \in hits : \A j \in hits : i <= j].category
    ELSE ""

CategoryChecked == pc = "category_check" \/ Logged("select") \/ Logged("peek")

\* C7: when the explicit category, the path and the content all yield no
\* category, the run is terminal: no selector, controller or grader call, the
\* category stays empty, one failure report carrying CATEGORY_FAILURE is made
\* and run_control_chain returns (None, the path of that report).
C7_CategoryFailureTerminal ==
    (/\ ExplicitStage = {}
     /\ ParentStage = {}
     /\ AnywhereStage = {}
     /\ peeked # None
     /\ ContentStage = "")
    => /\ meta_category = ""
       /\ ~Logged("select") /\ ~Logged("controller") /\ ~Logged("grade")
       /\ pc \in {"category_check", "returned"}
       /\ pc = "returned" =>
            /\ Len(reports) = 1
            /\ reports[1].is_failure
            /\ Len(reports[1].results) = 1
            /\ reports[1].results[1].id = "CATEGORY_FAILURE"
            /\ ret = <<[has_results |-> FALSE, results |-> <<>>, report_path |-> reports[1].path]>>

\* the first chunk was read, none of its words is a keyword, and the run returned
C7_Witness ==
    /\ pc = "returned"
    /\ specified_meta_category = "bogus"
    /\ document_path = <<"docs">>
    /\ peeked = "documents"
    /\ first_chunk = <<"hello">>
    /\ reports[1].path = "report_path"

\* C8: the category is decided by the first stage that succeeds: the explicit
\* category when it is a known one (case ignored), then the parent directory
\* name, then a known name anywhere in the path, then the first category of
\* the keyword table found in the first chunk; the path is consulted only
\* when the explicit stage yields nothing, the content only when the path
\* yields nothing too.
C8_CategoryPriority ==
    LET explicit == ExplicitStage
        parent == ParentStage
        anywhere == AnywhereStage
        path_consulted == Logged("path_detection")
        content_consulted == Logged("peek")
    IN  /\ path_consulted => explicit = {}
        /\ content_consulted => (explicit = {} /\ parent = {} /\ anywhere = {})
        /\ pc # "start" =>
              /\ explicit # {} => (meta_category \in explicit /\ ~path_consulted)
              /\ (explicit = {} /\ parent # {}) => meta_category \in parent
              /\ (explicit = {} /\ parent = {} /\ anywhere # {}) => meta_category \in anywhere
        /\ (CategoryChecked /\ explicit = {} /\ parent = {} /\ anywhere = {}) =>
              (content_consulted /\ meta_category = ContentStage)

\* an unknown explicit category, no category in the path, and a first chunk
\* holding keywords of two categories: the earlier one in the table is used
C8_Witness ==
    /\ pc = "selected"
    /\ specified_meta_category = "bogus"
    /\ document_path = <<"docs">>
    /\ first_chunk = <<"gdpr", "kyc">>
    /\ peeked = "documents"
    /\ meta_category = "KYC"

\* positions of the log at which op was called
Calls(op) == {i \in DOMAIN log : log[i] = op}

CategoryFailureReturned ==
    /\ pc = "returned"
    /\ Len(reports) = 1
    /\ reports[1].results[1].id = "CATEGORY_FAILURE"

\* C14: within one run delete_collection is invoked at most once for the
\* document's collection, exactly once when category resolution fails after
\* the collection was populated, and no peek or query follows the delete.
C14_DeleteOnceNoUseAfter ==
    /\ Cardinality(Calls("delete")) <= 1
    /\ CategoryFailureReturned => Cardinality(Calls("delete")) = 1
    /\ \A i \in Calls("delete") : \A j \in DOMAIN log :
          j > i => log[j] \notin {"peek", "query"}

\* a category failure after the first chunk was peeked: the delete is the
\* last call on the collection
C14_Witness ==
    /\ CategoryFailureReturned
    /\ Calls("add") # {}
    /\ Calls("peek") # {}
    /\ Calls("delete") # {}

\* C15: every peek and every query of a run comes after the add call that
\* stored the document's chunks has completed, and a run makes one add call
\* at most, so no peek or query sees a partly populated collection.
C15_AddBeforeUse ==
    /\ Cardinality(Calls("add") \cup Calls("add_raised")) <= 1
    /\ \A j \in Calls("peek") \cup Calls("query") :
          /\ \E i \in Calls("add") : i < j
          /\ n_chunks >= 1
    /\ \A i \in Calls("add") : \E c \in Calls("create") : c < i

\* a run that peeked the collection and then queried it for a control
C15_Witness ==
    /\ pc = "controlled"
    /\ Calls("peek") # {}
    /\ Calls("query") # {}

(***************************************************************************)
(* Two run_control_chain executions on one Chroma client                   *)
(* (api_server.py 346-385: the endpoint is a plain def, so two requests    *)
(* run in two threads; each builds its own OrchestratorAgent, and every    *)
(* ExtractorAgent opens the same persistent Chroma directory).  Only the   *)
(* calls on the client and on the collection are modelled.                 *)
(***************************************************************************)
MaxQueries == 2

Runs == {1, 2}

CollectionNames == {"doc_1", "doc_2", "doc_3"}

\* names uuid4 has been asked for so far
Issued == {collection_name[r] : r \in Runs} \ {None}

\* a generator that may return a name it has returned before
uuid4Repeating(issued) == CollectionNames

\* extractor.py 346: uuid.uuid4().hex, a name not generated before
uuid4(issued) == CollectionNames \ issued

Called(r, op) == calls \cup {[run |-> r, op |-> op, name |-> collection_name[r]]}

\* chroma_client.delete_collection(name); when it raises (every caller
\* catches it) the store is left as it was
ClientDelete(name, ok) ==
    /\ client_collections' = IF ok THEN client_collections \ {name} ELSE client_collections
    /\ stored_by' = IF ok THEN [stored_by EXCEPT ![name] = {}] ELSE stored_by

TwoInit ==
    /\ run_pc = [r \in Runs |-> "start"]
    /\ collection_name = [r \in Runs |-> None]
    /\ client_collections = {}
    /\ stored_by = [n \in CollectionNames |-> {}]
    /\ queries = [r \in Runs |-> 0]
    /\ calls = {}
    /\ ChunkIdle
    /\ GradeIdle
    /\ ReportIdle
    /\ PipeIdle
    /\ ExtractIdle
    /\ SelectIdle

\* extractor.py 285-343: the run ends before any collection is named
RunFailsEarly(r) ==
    /\ run_pc[r] = "start"
    /\ run_pc' = [run_pc EXCEPT ![r] = "returned"]
    /\ UNCHANGED <<collection_name, client_collections, stored_by, queries, calls>>
    /\ UNCHANGED notTwo

\* extractor.py 346
RunNameCollection(r) ==
    /\ run_pc[r] = "start"
    /\ \E name \in uuid4(Issued) :
        collection_name' = [collection_name EXCEPT ![r] = name]
    /\ run_pc' = [run_pc EXCEPT ![r] = "named"]
    /\ UNCHANGED <<client_collections, stored_by, queries, calls>>
    /\ UNCHANGED notTwo

\* extractor.py 351-354: get_or_create_collection returns the collection of
\* that name, creating it if the client does not hold it
RunCreate(r) ==
    /\ run_pc[r] = "named"
    /\ client_collections' = client_collections \cup {collection_name[r]}
    /\ calls' = Called(r, "create")
    /\ run_pc' = [run_pc EXCEPT ![r] = "created"]
    /\ UNCHANGED <<collection_name, stored_by, queries>>
    /\ UNCHANGED notTwo

\* extractor.py 351 raises, 371-380: cleanup delete, error returned
RunCreateRaises(r) ==
    /\ run_pc[r] = "named"
    /\ \E ok \in BOOLEAN : ClientDelete(collection_name[r], ok)
    /\ calls' = Called(r, "create") \cup Called(r, "delete")
    /\ run_pc' = [run_pc EXCEPT ![r] = "returned"]
    /\ UNCHANGED <<collection_name, queries>>
    /\ UNCHANGED notTwo

\* extractor.py 357-369: all chunks added in one call, collection returned
RunAdd(r) ==
    /\ run_pc[r] = "created"
    /\ collection_name[r] \in client_collections
    /\ stored_by' = [stored_by EXCEPT ![collection_name[r]] = @ \cup {r}]
    /\ calls' = Called(r, "add")
    /\ run_pc' = [run_pc EXCEPT ![r] = "populated"]
    /\ UNCHANGED <<collection_name, client_collections, queries>>
    /\ UNCHANGED notTwo

\* extractor.py 361 raises, 371-380: cleanup delete, error returned
RunAddRaises(r) ==
    /\ run_pc[r] = "created"
    /\ \E ok \in BOOLEAN : ClientDelete(collection_name[r], ok)
    /\ calls' = Called(r, "add") \cup Called(r, "delete")
    /\ run_pc' = [run_pc EXCEPT ![r] = "returned"]
    /\ UNCHANGED <<collection_name, queries>>
    /\ UNCHANGED notTwo

\* orchestrator.py 178-192: the first chunk is peeked when the category is
\* still unknown
RunPeek(r) ==
    /\ run_pc[r] = "populated"
    /\ calls' = Called(r, "peek")
    /\ run_pc' = [run_pc EXCEPT ![r] = "categorised"]
    /\ UNCHANGED <<collection_name, client_collections, stored_by, queries>>
    /\ UNCHANGED notTwo

\* orchestrator.py 178: the category is known, no peek
RunSkipPeek(r) ==
    /\ run_pc[r] = "populated"
    /\ run_pc' = [run_pc EXCEPT ![r] = "categorised"]
    /\ UNCHANGED <<collection_name, client_collections, stored_by, queries, calls>>
    /\ UNCHANGED notTwo

\* orchestrator.py 195-238: category failure, no prompts or type check
\* failure; the collection is deleted and the run returns
RunDeleteEarly(r) ==
    /\ run_pc[r] = "categorised"
    /\ \E ok \in BOOLEAN : ClientDelete(collection_name[r], ok)
    /\ calls' = Called(r, "delete")
    /\ run_pc' = [run_pc EXCEPT ![r] = "returned"]
    /\ UNCHANGED <<collection_name, queries>>
    /\ UNCHANGED notTwo

\* controller.py 132-138: the query of one control
RunQuery(r) ==
    /\ run_pc[r] \in {"categorised", "controller"}
    /\ queries[r] < MaxQueries
    /\ queries' = [queries EXCEPT ![r] = @ + 1]
    /\ calls' = Called(r, "query")
    /\ run_pc' = [run_pc EXCEPT ![r] = "controller"]
    /\ UNCHANGED <<collection_name, client_collections, stored_by>>
    /\ UNCHANGED notTwo

\* controller.py 155-176 raises through orchestrator.py 244: the run ends
\* without a delete
RunControllerRaises(r) ==
    /\ run_pc[r] = "controller"
    /\ run_pc' = [run_pc EXCEPT ![r] = "returned"]
    /\ UNCHANGED <<collection_name, client_collections, stored_by, queries, calls>>
    /\ UNCHANGED notTwo

\* orchestrator.py 249-257: the delete after the controller returned
RunCleanup(r) ==
    /\ run_pc[r] \in {"categorised", "controller"}
    /\ \E ok \in BOOLEAN : ClientDelete(collection_name[r], ok)
    /\ calls' = Called(r, "delete")
    /\ run_pc' = [run_pc EXCEPT ![r] = "returned"]
    /\ UNCHANGED <<collection_name, queries>>
    /\ UNCHANGED notTwo

TwoNext ==
    \/ \E r \in Runs : RunFailsEarly(r)
    \/ \E r \in Runs : RunNameCollection(r)
    \/ \E r \in Runs : RunCreate(r)
    \/ \E r \in Runs : RunCreateRaises(r)
    \/ \E r \in Runs : RunAdd(r)
    \/ \E r \in Runs : RunAddRaises(r)
    \/ \E r \in Runs : RunPeek(r)
    \/ \E r \in Runs : RunSkipPeek(r)
    \/ \E r \in Runs : RunDeleteEarly(r)
    \/ \E r \in Runs : RunQuery(r)
    \/ \E r \in Runs : RunControllerRaises(r)
    \/ \E r \in Runs : RunCleanup(r)

SpecTwoRuns == TwoInit /\ [][TwoNext]_vars

\* the run holds a populated collection it has not yet tried to delete
UsesCollection(r) == run_pc[r] \in {"populated", "categorised", "controller"}

\* C16: of two concurrent runs each names its collection with a name the
\* other does not have, every create, add, peek, query and delete of a run
\* is on its own collection, and while a run uses its collection the
\* collection exists and holds that run's chunks only.
C16_RunsIsolated ==
    /\ \A r1, r2 \in Runs :
          (r1 # r2 /\ collection_name[r1] # None) => collection_name[r1] # collection_name[r2]
    /\ \A c \in calls : c.name = collection_name[c.run]
    /\ \A r \in Runs : UsesCollection(r) =>
          /\ collection_name[r] \in client_collections
          /\ stored_by[collection_name[r]] = {r}

\* run 1 has deleted its collection while run 2 is still querying its own
C16_Witness ==
    /\ run_pc[1] = "returned"
    /\ [run |-> 1, op |-> "delete", name |-> collection_name[1]] \in calls
    /\ collection_name[1] \notin client_collections
    /\ run_pc[2] = "controller"
    /\ [run |-> 2, op |-> "query", name |-> collection_name[2]] \in calls

(***************************************************************************)
(* ControllerAgent.run on its own: the collection holds up to              *)
(* MaxStoredChunks chunks and prompt_files up to MaxControls files.        *)
(***************************************************************************)
MaxControls == 2
MaxStoredChunks == 4

ControlInit ==
    /\ pc = "selected"
    /\ prompt_files \in SeqsUpTo(PromptKinds, MaxControls) \ {<<>>}
    /\ n_chunks \in 1..MaxStoredChunks
    /\ vector_collection = <<[name |-> CollectionName, is_collection |-> TRUE]>>
    /\ store = {CollectionName}
    /\ specified_meta_category = None
    /\ document_path = <<>>
    /\ meta_category = "KYC"
    /\ extraction_error_msg = None
    /\ first_chunk = <<>>
    /\ peeked = None
    /\ p_i = 0
    /\ detailed_results = <<>>
    /\ per_control = <<>>
    /\ log = <<>>
    /\ reports = <<>>
    /\ ret = <<>>
    /\ ChunkIdle
    /\ GradeIdle
    /\ ReportIdle
    /\ TwoIdle
    /\ ExtractIdle
    /\ SelectIdle

ControlNext ==
    \/ ControllerClientMissing
    \/ ControllerStart
    \/ ControllerLoadError
    \/ ControllerEmbeddingError
    \/ ControllerQueryError
    \/ ControllerQueryResultUnusable
    \/ ControllerNoRelevantChunks
    \/ ControllerApply
    \/ ControllerReturn

SpecControl == ControlInit /\ [][ControlNext]_vars

\* run returned from the end of its loop (controller.py 227-228)
LoopReturned == pc = "controlled" /\ Len(per_control) = Len(prompt_files)

\* the results of all completed iterations, in order
ResultsOf(its) == Flatten([k \in DOMAIN its |-> its[k].results])

\* C17: a control whose definition fails to load gets exactly one result,
\* under its control id, with the load-error text and the chunk marker
\* PROMPT_LOAD_ERROR; no embedding, query or model call is made for it, and
\* the loop goes on to the next control.
C17_LoadErrorOneResult ==
    /\ \A k \in DOMAIN per_control :
          per_control[k].load_error # None =>
              /\ Len(per_control[k].results) = 1
              /\ per_control[k].results[1].id = per_control[k].id
              /\ per_control[k].results[1].result = per_control[k].load_error
              /\ per_control[k].results[1].chunk_id = "PROMPT_LOAD_ERROR"
              /\ per_control[k].calls = <<>>
    /\ pc \in {"controller", "controlled"} /\ per_control # <<>> =>
          /\ p_i = Len(per_control)
          /\ detailed_results = ResultsOf(per_control)
    /\ pc = "controlled" /\ per_control # <<>> => Len(per_control) = Len(prompt_files)

\* the first of two controls failed to load and the second was evaluated
C17_Witness ==
    /\ LoopReturned
    /\ Len(per_control) = 2
    /\ per_control[1].load_error # None
    /\ per_control[2].load_error = None
    /\ Len(per_control[2].results) >= 2

\* the prompt files in the order run was given them, by control id
ControlIds == [k \in DOMAIN prompt_files |-> prompt_files[k].control_id]

\* number of results run returned for the k-th prompt file
EmittedFor(k) == IF k <= Len(per_control) THEN Len(per_control[k].results) ELSE 0

\* the query of the iteration returned (it did not raise)
Queried(it) ==
    /\ it.calls # <<>>
    /\ Len(it.calls) >= 2
    /\ it.results[1].chunk_id # "QUERY_ERROR"

C19_LLMFailureIsolated ==
    /\ \A k \in DOMAIN per_control :
        LET it == per_control[k] IN
          (\E i \in DOMAIN it.llm : it.llm[i] = "llm_failed") =>
              /\ DOMAIN it.results = DOMAIN it.retrieved_ids
              /\ \A i \in DOMAIN it.results :
                    /\ it.results[i].chunk_id = it.retrieved_ids[i]
                    /\ it.results[i].id = it.id
                    /\ it.results[i].result = it.llm[i]
              /\ it.calls = <<"embed", "query">> \o [i \in DOMAIN it.retrieved_ids |-> "llm"]
              /\ pc \in {"controller", "controlled"} =>
                    /\ p_i >= k
                    /\ Len(detailed_results) = Len(ResultsOf(per_control))
    /\ pc = "controlled" /\ per_control # <<>> => Len(per_control) = Len(prompt_files)

\* the first model call of the first control failed; its later chunks and
\* the second control were still evaluated
C19_Witness ==
    /\ LoopReturned
    /\ Len(per_control) = 2
    /\ Len(per_control[1].llm) = 3
    /\ per_control[1].llm[1] = "llm_failed"
    /\ per_control[1].results[3].result = "content"
    /\ per_control[2].llm # <<>>
    /\ per_control[2].results[1].result = "content"

(***************************************************************************)
(* ReporterAgent.run and the markers of upstream failures                  *)
(***************************************************************************)
\* ids the orchestrator gives the results it reports for an upstream failure
\* (orchestrator.py 164, 172, 198, 216)
UpstreamSentinel(id) ==
    \/ id \in {"EXTRACTION_EMBED_FAILURE", "CATEGORY_FAILURE", "NO_CONTENT"}
    \/ StartsWithSkip(id)

InputIds == {r_results[k].id : k \in DOMAIN r_results}

\* C20: a report that is not a failure report has no entry for an
\* upstream-failure marker (extraction failure, category failure, no content,
\* skipped for lack of prompts) and does not count one in its tally; a
\* failure report made for one marker result shows that result, as its only
\* entry or as the failure reason.
C20_SentinelsOutsideTally ==
    /\ (Reported /\ ~is_failure) =>
          /\ \A k \in DOMAIN report.entries :
                ~UpstreamSentinel(report.entries[k].control_id)
          /\ report.summary.total = Cardinality({c \in InputIds : ~UpstreamSentinel(c)})
          /\ report.summary.passed + report.summary.failed = report.summary.total
    /\ (Reported /\ is_failure /\ Len(r_results) = 1 /\ UpstreamSentinel(r_results[1].id)) =>
          /\ report.summary.kind = "process_failed"
          /\ \/ /\ Len(report.entries) = 1
                /\ report.entries[1].control_id = r_results[1].id
             \/ /\ report.entries = <<>>
                /\ report.failure_detail = r_results[1].result

\* the results list in the order given by the permutation p of its positions
Permuted(results, p) == [k \in DOMAIN results |-> results[p[k]]]

\* the permutations of the positions of a list of n results
PermutationsOfLength == [n \in 0..(MaxResults + 1) |-> Permutations(1..n)]

\* C21: consolidation does not depend on the order of the results: for every
\* permutation of the input list the reporter keeps the same control ids,
\* each with the same maximum comparison value and the same PASS/FAIL
\* status, and writes the same passed/failed/total summary.
C21_OrderIndependent ==
    Reported =>
        \A p \in PermutationsOfLength[Len(r_results)] :
            LET by_id == GroupById(Permuted(r_results, p), is_failure)
                cons == Consolidate(by_id)
            IN  /\ DOMAIN cons = DOMAIN consolidated_data
                /\ \A c \in DOMAIN cons :
                      /\ RiskForComparison(cons[c].score)
                            = RiskForComparison(consolidated_data[c].score)
                      /\ StatusStr(cons[c].score) = StatusStr(consolidated_data[c].score)
                /\ ReportSummary(Permuted(r_results, p), is_failure, by_id, cons)
                      = report.summary

\* a control with a passing first result and a failing later one, reported
\* together with a second control
C21_Witness ==
    /\ Reported
    /\ ~is_failure
    /\ Len(r_results) = 3
    /\ r_results[1].id = "A" /\ r_results[1].score = Num(1)
    /\ r_results[2].id = "B"
    /\ r_results[3].id = "A" /\ r_results[3].score = Num(10)
    /\ report.summary.failed >= 1

\* C22 as stated: the score of a control's entry in the report is the maximum
\* comparison value of the control's results (10 for the scores 3, 7, -1, 10).
C22_EntryScoreIsMaximum ==
    Reported =>
        \A k \in DOMAIN report.entries :
            report.entries[k].score
                = Num(MaxComparisonValue(ItemsOf(report.entries[k].control_id)))

\* C22, amended: the entry of a control carries the raw score of the earliest
\* result that reaches the maximum comparison value of the control's results;
\* the comparison value of that score is the maximum, the score itself need
\* not be (for the scores 3, 7, -1, 10 the entry carries -1, status FAIL).
C22_EntryCarriesRawScore ==
    Reported =>
        \A k \in DOMAIN report.entries :
            LET items == ItemsOf(report.entries[k].control_id)
                m == MaxComparisonValue(items)
            IN  /\ report.entries[k].score = items[EarliestWithValue(items, m)].score
                /\ report.entries[k].result = items[EarliestWithValue(items, m)].result
                /\ ComparisonValue(report.entries[k].score) = m
                /\ m >= PASS_SCORE_THRESHOLD => report.entries[k].status = "FAIL"

\* the results scored 3, 7, -1, 10 of one control: the entry is the third
\* result, with score -1
C22_Witness ==
    /\ Reported
    /\ Len(r_results) = 4
    /\ r_results[1].score = Num(3) /\ r_results[2].score = Num(7)
    /\ r_results[3].score = Num(-1) /\ r_results[4].score = Num(10)
    /\ Len(report.entries) = 1
    /\ report.entries[1].score = Num(-1)
    /\ report.entries[1].result = 3
    /\ report.entries[1].status = "FAIL"

(***************************************************************************)
(* run_control_chain: configuration errors                                 *)
(***************************************************************************)
\* the run met a missing client: in ExtractorAgent.run (extractor.py
\* 289-296) or in ControllerAgent.run (controller.py 69-71)
ExtractorClientMissing ==
    extraction_error_msg \in {"openai_client_missing", "chroma_client_missing"}

ControllerClientWasMissing ==
    /\ detailed_results # <<>>
    /\ detailed_results[1].id = "CONTROLLER_ERROR"

\* C23: a run that met a configuration error ends with one reporter call,
\* made with is_failure=True for a single failure result, and grades nothing.
C23_ConfigErrorTerminal ==
    (pc = "returned" /\ (ExtractorClientMissing \/ ControllerClientWasMissing)) =>
        /\ Len(reports) = 1
        /\ reports[1].is_failure
        /\ Len(reports[1].results) = 1
        /\ Calls("grade") = {}

(***************************************************************************)
(* GraderAgent.run as a per-item transform                                 *)
(***************************************************************************)
\* the score the grader's rules give to one response, whatever the item
ScoreOfResponse(resp) ==
    IF resp.kind = "content" /\ ParseInt(resp.content).ok
          /\ ParseInt(resp.content).val >= 1 /\ ParseInt(resp.content).val <= 10
    THEN ParseInt(resp.content).val
    ELSE 10

\* C24: every step of GraderAgent.run leaves the list's length and order and
\* every field other than score as they were; a grading step gives exactly
\* one item, the next in order, the score that its own response determines
\* and touches no other item; after a failed call the loop goes on, so that
\* a returning run has scored every item.
C24_PerItemTransform ==
    [][ /\ Len(g_results') = Len(g_results)
        /\ \A k \in DOMAIN g_results :
              /\ g_results'[k].id = g_results[k].id
              /\ g_results'[k].instr = g_results[k].instr
        /\ g_i' # g_i =>
              /\ g_i' = g_i + 1
              /\ \A k \in DOMAIN g_results : k # g_i' => g_results'[k] = g_results[k]
              /\ g_results'[g_i'].score = ScoreOfResponse(g_resp')
              /\ gpc' = "loop"
        /\ g_i' = g_i => g_results' = g_results
        /\ gpc' = "done" => g_i = Len(g_results)
      ]_vars

\* the first of two items was graded 5, the call for the second raised
C24_Witness ==
    /\ gpc = "done"
    /\ Len(g_results) = 2
    /\ g_resp.kind = "raises"
    /\ g_results[1].score = 5
    /\ g_results[2].score = 10
    /\ g_results[1].id # g_results[2].id

(***************************************************************************)
(* The order of the report's entries                                       *)
(***************************************************************************)
\* code points of the characters the control ids are written with
Letters ==
    <<"A", "B", "C", "D", "E", "F", "G", "H", "I", "J", "K", "L", "M",
      "N", "O", "P", "Q", "R", "S", "T", "U", "V", "W", "X", "Y", "Z">>

CodePoint(ch) ==
    IF ch = "_" THEN 95 ELSE 64 + (CHOOSE k \in 1..Len(Letters) : Letters[k] = ch)

\* a control id as its sequence of characters
Spelling(id) ==
    CASE id = "A" -> <<"A">>
      [] id = "B" -> <<"B">>
      [] id = "C" -> <<"C">>
      [] id = "CATEGORY_FAILURE" ->
            <<"C", "A", "T", "E", "G", "O", "R", "Y", "_", "F", "A", "I", "L", "U", "R", "E">>
      [] id = "EXTRACTION_EMBED_FAILURE" ->
            <<"E", "X", "T", "R", "A", "C", "T", "I", "O", "N", "_", "E", "M", "B", "E", "D",
              "_", "F", "A", "I", "L", "U", "R", "E">>
      [] id = "NO_CONTENT" -> <<"N", "O", "_", "C", "O", "N", "T", "E", "N", "T">>
      [] id = "SKIP_KYC" -> <<"S", "K", "I", "P", "_", "K", "Y", "C">>

\* Python's str comparison a < b: the first differing character decides, a
\* proper prefix is smaller
LexLess(a, b) ==
    \/ /\ Len(a) < Len(b)
       /\ \A k \in 1..Len(a) : a[k] = b[k]
    \/ \E k \in 1..Min(Len(a), Len(b)) :
          /\ \A j \in 1..(k - 1) : a[j] = b[j]
          /\ CodePoint(a[k]) < CodePoint(b[k])

\* C25: the report has exactly one entry for each control id of the
\* consolidated results and none else, and the entries are in ascending
\* lexicographic order of their control id, whatever the order of the input.
C25_EntriesSortedUnique ==
    Reported =>
        /\ {report.entries[k].control_id : k \in DOMAIN report.entries}
              = DOMAIN consolidated_data
        /\ Len(report.entries) = Cardinality(DOMAIN consolidated_data)
        /\ \A k \in 1..(Len(report.entries) - 1) :
              LexLess(Spelling(report.entries[k].control_id),
                      Spelling(report.entries[k + 1].control_id))

\* a failure report whose input names B, then CATEGORY_FAILURE, then A: the
\* entries are A, B, CATEGORY_FAILURE
C25_Witness ==
    /\ Reported
    /\ Len(r_results) = 3
    /\ r_results[1].id = "B"
    /\ r_results[2].id = "CATEGORY_FAILURE"
    /\ r_results[3].id = "A"
    /\ Len(report.entries) = 3
    /\ report.entries[1].control_id = "A"
    /\ report.entries[3].control_id = "CATEGORY_FAILURE"

(***************************************************************************)
(* run_control_chain: a delete_collection that raises                      *)
(***************************************************************************)
\* delete_collection was called and the collection is still in the store
DeleteRaised == Calls("delete") # {} /\ CollectionName \in store

\* C26: a delete_collection that raises ends no run.  The step that calls it
\* never raises; a run that returns after a failed delete returns the path of
\* its one report, and after the controller step it returns the graded
\* results it reported; the only exception after a failed delete is the
\* grader's own.
C26_DeleteFailureNotFatal ==
    /\ [][Cardinality(Calls("delete")') > Cardinality(Calls("delete")) => pc' # "raised"]_vars
    /\ []((DeleteRaised /\ pc = "returned") =>
            /\ Len(reports) = 1
            /\ ret[1].report_path = reports[1].path
            /\ Calls("controller") # {} =>
                  /\ Calls("grade") # {}
                  /\ ret[1].has_results
                  /\ ret[1].results = reports[1].results
                  /\ \A i \in DOMAIN ret[1].results : IsNumber(ret[1].results[i].score))
    /\ []((DeleteRaised /\ pc = "raised") => Calls("grade") # {})

\* the delete after the controller raised; the results were graded, reported
\* and returned
C26_Witness ==
    /\ pc = "returned"
    /\ DeleteRaised
    /\ Calls("controller") # {}
    /\ Calls("grade") # {}
    /\ ret[1].has_results
    /\ Len(ret[1].results) >= 1
    /\ ret[1].report_path = "report_path"

(***************************************************************************)
(* ExtractorAgent.run on its own: extraction, chunking, embedding and the  *)
(* population of the document's collection.                                *)
(***************************************************************************)
MaxDocChunks == 3

\* texts of the chunks _chunk_text produced (two chunks may have equal text)
ChunkTexts == {"t1", "t2"}

\* the embedding vector of one text
Vec(t) == [of |-> t]

\* embedding_utils.py 11-48: None when the client is missing or the call
\* raises, else one vector per item of response.data, in the order of the
\* input; the response may hold fewer or more items than texts were sent
EmbeddingResults(texts) ==
    {[returned |-> FALSE, vectors |-> <<>>]}
        \cup {[returned |-> TRUE,
               vectors |-> [i \in 1..k |-> IF i <= Len(texts) THEN Vec(texts[i]) ELSE Vec("t1")]] :
                  k \in 0..(Len(texts) + 1)}

\* a test that accepts every list the embedding call returned
EmbeddingsAcceptedAnyLength(emb, texts) == emb.returned

\* extractor.py 336-343: embeddings is not None and has one vector per chunk
EmbeddingsAccepted(emb, texts) == emb.returned /\ Len(emb.vectors) = Len(texts)

\* extractor.py 357-365: the arguments of collection.add
AddArguments(texts, emb) ==
    [ids |-> [i \in 1..Len(texts) |-> ChunkId(i - 1)],
     embeddings |-> emb.vectors,
     documents |-> texts]

\* the pair ExtractorAgent.run returns
RunResult(collection, error) == <<[collection |-> collection, error |-> error]>>

\* errors returned before chunking (extractor.py 285-319)
EarlyErrors ==
    {"file_not_found", "openai_client_missing", "chroma_client_missing",
     "unsupported_type", "extraction_failed"}

ExtractInit ==
    /\ xpc = "entry"
    /\ text_chunks = <<>>
    /\ embeddings = [returned |-> FALSE, vectors |-> <<>>]
    /\ x_store = {}
    /\ x_added = <<>>
    /\ x_stored = <<>>
    /\ x_calls = <<>>
    /\ x_ret = <<>>
    /\ ChunkIdle
    /\ GradeIdle
    /\ ReportIdle
    /\ PipeIdle
    /\ TwoIdle
    /\ SelectIdle

\* extractor.py 375-379: the cleanup delete_collection call and its outcome
CleanupCall(ok) == IF ok THEN "delete" ELSE "delete_raised"

\* extractor.py 285-319: missing file or client, unsupported type, extraction error
RunEarlyError ==
    /\ xpc = "entry"
    /\ \E e \in EarlyErrors : x_ret' = RunResult(None, e)
    /\ xpc' = "done"
    /\ UNCHANGED <<text_chunks, embeddings, x_store, x_added, x_stored, x_calls>>
    /\ UNCHANGED notExtract

\* extractor.py 321-332: no content, or no chunk
RunNoContent ==
    /\ xpc = "entry"
    /\ x_ret' = RunResult(None, None)
    /\ xpc' = "done"
    /\ UNCHANGED <<text_chunks, embeddings, x_store, x_added, x_stored, x_calls>>
    /\ UNCHANGED notExtract

\* extractor.py 326-328: the content is chunked
RunChunk ==
    /\ xpc = "entry"
    /\ text_chunks' \in SeqsUpTo(ChunkTexts, MaxDocChunks) \ {<<>>}
    /\ xpc' = "chunked"
    /\ UNCHANGED <<embeddings, x_store, x_added, x_stored, x_calls, x_ret>>
    /\ UNCHANGED notExtract

\* extractor.py 335: get_openai_embeddings(self.openai_client, text_chunks)
RunEmbed ==
    /\ xpc = "chunked"
    /\ embeddings' \in EmbeddingResults(text_chunks)
    /\ xpc' = "embedded"
    /\ UNCHANGED <<text_chunks, x_store, x_added, x_stored, x_calls, x_ret>>
    /\ UNCHANGED notExtract

\* extractor.py 336-343: no embeddings, or not one per chunk
RunEmbeddingRejected ==
    /\ xpc = "embedded"
    /\ ~EmbeddingsAccepted(embeddings, text_chunks)
    /\ x_ret' = RunResult(None, IF embeddings.returned THEN "embedding_mismatch"
                                ELSE "embedding_failed")
    /\ xpc' = "done"
    /\ UNCHANGED <<text_chunks, embeddings, x_store, x_added, x_stored, x_calls>>
    /\ UNCHANGED notExtract

\* extractor.py 346-354: the collection is named and created
RunCreateCollection ==
    /\ xpc = "embedded"
    /\ EmbeddingsAccepted(embeddings, text_chunks)
    /\ x_store' = x_store \cup {CollectionName}
    /\ x_calls' = Append(x_calls, "create")
    /\ xpc' = "created"
    /\ UNCHANGED <<text_chunks, embeddings, x_added, x_stored, x_ret>>
    /\ UNCHANGED notExtract

\* extractor.py 351 raises, 371-380: nothing was created; the cleanup delete
\* is attempted (raising or not, the store holds no collection), the error
\* is returned
RunCreateCollectionRaises ==
    /\ xpc = "embedded"
    /\ EmbeddingsAccepted(embeddings, text_chunks)
    /\ \E cleanup_ok \in BOOLEAN :
        x_calls' = x_calls \o <<"create_raised", CleanupCall(cleanup_ok)>>
    /\ x_ret' = RunResult(None, "chroma_error")
    /\ xpc' = "done"
    /\ UNCHANGED <<text_chunks, embeddings, x_store, x_added, x_stored>>
    /\ UNCHANGED notExtract

\* extractor.py 357-369: one add call with all chunks, the collection is returned
RunAddChunks ==
    /\ xpc = "created"
    /\ x_added' = <<AddArguments(text_chunks, embeddings)>>
    /\ x_stored' = <<AddArguments(text_chunks, embeddings)>>
    /\ x_calls' = Append(x_calls, "add")
    /\ x_ret' = RunResult(CollectionName, None)
    /\ xpc' = "done"
    /\ UNCHANGED <<text_chunks, embeddings, x_store>>
    /\ UNCHANGED notExtract

\* an add failure that returns the error without the cleanup delete
RunAddChunksRaisesNoCleanup ==
    /\ xpc = "created"
    /\ x_added' = <<AddArguments(text_chunks, embeddings)>>
    /\ x_calls' = Append(x_calls, "add_raised")
    /\ x_ret' = RunResult(None, "chroma_error")
    /\ xpc' = "done"
    /\ UNCHANGED <<text_chunks, embeddings, x_store, x_stored>>
    /\ UNCHANGED notExtract

\* extractor.py 361 raises, 371-380: the cleanup delete, which may itself
\* raise and leave the collection; the error is returned
RunAddChunksRaises ==
    /\ xpc = "created"
    /\ x_added' = <<AddArguments(text_chunks, embeddings)>>
    /\ \E cleanup_ok \in BOOLEAN :
        /\ x_store' = IF cleanup_ok THEN x_store \ {CollectionName} ELSE x_store
        /\ x_calls' = x_calls \o <<"add_raised", CleanupCall(cleanup_ok)>>
    /\ x_ret' = RunResult(None, "chroma_error")
    /\ xpc' = "done"
    /\ UNCHANGED <<text_chunks, embeddings, x_stored>>
    /\ UNCHANGED notExtract

ExtractNext ==
    \/ RunEarlyError
    \/ RunNoContent
    \/ RunChunk
    \/ RunEmbed
    \/ RunEmbeddingRejected
    \/ RunCreateCollection
    \/ RunCreateCollectionRaises
    \/ RunAddChunks
    \/ RunAddChunksRaises

SpecExtract == ExtractInit /\ [][ExtractNext]_vars

\* the embedding call gave exactly one vector per chunk
OneVectorPerChunk == embeddings.returned /\ Len(embeddings.vectors) = Len(text_chunks)

\* C27: a collection is created and populated only if the embedding call
\* returned exactly one vector per chunk; the ids, vectors and documents
\* given to add then have the same length, position i holding id chunk_i,
\* the vector of chunk i and the text of chunk i, with all ids distinct; on
\* an embedding failure or a length mismatch no collection is created and
\* run returns an error.
C27_EmbeddingAllOrNothing ==
    /\ (x_store # {} \/ x_added # <<>>) => OneVectorPerChunk
    /\ x_added # <<>> =>
          LET a == x_added[1] IN
            /\ Len(a.ids) = Len(text_chunks)
            /\ Len(a.embeddings) = Len(text_chunks)
            /\ a.documents = text_chunks
            /\ \A i \in DOMAIN a.ids :
                  /\ a.ids[i] = ChunkId(i - 1)
                  /\ a.embeddings[i] = Vec(a.documents[i])
            /\ \A i, j \in DOMAIN a.ids : i # j => a.ids[i] # a.ids[j]
    /\ (xpc = "done" /\ text_chunks # <<>> /\ ~OneVectorPerChunk) =>
          /\ x_ret[1].collection = None
          /\ x_ret[1].error # None
          /\ x_store = {}
          /\ x_added = <<>>

\* three chunks, the first and third with the same text, were embedded and
\* added; the collection was returned
C27_Witness ==
    /\ xpc = "done"
    /\ Len(text_chunks) = 3
    /\ text_chunks[1] = text_chunks[3]
    /\ text_chunks[1] # text_chunks[2]
    /\ x_stored # <<>>
    /\ x_ret[1].collection = CollectionName

\* run has returned without a collection
ReturnedNoCollection == xpc = "done" /\ x_ret[1].collection = None

\* the cleanup delete of extractor.py 375-379 was called and raised
CleanupRaised == x_calls # <<>> /\ x_calls[Len(x_calls)] = "delete_raised"

\* the statement as written: run never returns a collection together with
\* an error, and whenever it returns no collection the store holds no
\* collection created by the call.
C30_NoCollectionLeft ==
    xpc = "done" =>
        /\ ~(x_ret[1].collection # None /\ x_ret[1].error # None)
        /\ x_ret[1].collection = None => x_store = {}

\* C30: run returns exactly one of (collection, None), (None, error) and
\* (None, None), never a collection together with an error; a returned
\* collection exists and holds the added chunks; a return before the
\* creation step (early error, no content, embedding failure) has made no
\* call on the store and leaves nothing in it; a failure while creating or
\* adding returns an error after exactly one cleanup delete, made last, with
\* nothing stored, and the collection is left in the store only if that
\* delete itself raised.
C30_ReturnShapeAndCleanup ==
    xpc = "done" =>
        LET r == x_ret[1] IN
        /\ \/ r.collection = CollectionName /\ r.error = None
           \/ r.collection = None /\ r.error # None
           \/ r.collection = None /\ r.error = None
        /\ r.collection # None =>
              /\ x_store = {CollectionName}
              /\ x_stored # <<>>
              /\ x_calls = <<"create", "add">>
        /\ (r.collection = None /\ r.error \in EarlyErrors \cup {None, "embedding_failed", "embedding_mismatch"}) =>
              /\ x_calls = <<>>
              /\ x_store = {}
        /\ (r.collection = None /\ x_calls # <<>>) =>
              /\ r.error = "chroma_error"
              /\ x_stored = <<>>
              /\ x_calls[Len(x_calls)] \in {"delete", "delete_raised"}
              /\ Cardinality({i \in DOMAIN x_calls : x_calls[i] \in {"delete", "delete_raised"}}) = 1
              /\ x_store # {} => CleanupRaised
        /\ r.error = None /\ r.collection = None => text_chunks = <<>>

\* add raised after the collection was created, the cleanup delete removed
\* it, and run returned the error without a collection
C30_Witness ==
    /\ ReturnedNoCollection
    /\ x_calls = <<"create", "add_raised", "delete">>
    /\ x_added # <<>>
    /\ x_store = {}
    /\ x_ret[1].error = "chroma_error"

(***************************************************************************)
(* api_server.py 405-447: the summary line run_controls_endpoint computes  *)
(* from the results run_control_chain returned                             *)
(***************************************************************************)

\* api_server.py 420: the results of one control, every id grouped
ApiItemsOf(results, c) == SelectSeq(results, LAMBDA it : it.id = c)

\* api_server.py 425-426: the int scores, a score <= 0 taken as 10
scores_for_min(items) ==
    LET valid == SelectSeq(items, LAMBDA it : IsNumber(it.score))
    IN  [k \in 1..Len(valid) |-> IF valid[k].score.v > 0 THEN valid[k].score.v ELSE 10]

\* api_server.py 427: min(scores_for_min), 10 when there is none
min_score(items) ==
    LET sc == scores_for_min(items)
    IN  IF sc = <<>> THEN 10
        ELSE CHOOSE m \in {sc[k] : k \in DOMAIN sc} : \A k \in DOMAIN sc : m <= sc[k]

\* api_server.py 405-447: passed_controls and total_controls of the summary line
ApiSummary(results) ==
    LET ids == {results[k].id : k \in DOMAIN results}
    IN  [passed |-> Cardinality({c \in ids :
                        LET m == min_score(ApiItemsOf(results, c))
                        IN  1 <= m /\ m < 5}),
         total  |-> Cardinality(ids)]

\* a results list as the grader leaves it after the controller evaluated
\* controls: control ids, every score an integer of 1..10
GradedControlResults ==
    /\ r_results # <<>>
    /\ \A k \in DOMAIN r_results :
          /\ r_results[k].id \in {"A", "B", "C"}
          /\ IsNumber(r_results[k].score)
          /\ r_results[k].score.v \in 1..10

\* C29: for a graded results list, the passed and total counts of the
\* endpoint's summary line equal the passed and total counts the reporter
\* wrote in the report for the same results.
C29_ApiSummaryMatchesReport ==
    (Reported /\ ~is_failure /\ GradedControlResults) =>
        /\ ApiSummary(r_results).passed = report.summary.passed
        /\ ApiSummary(r_results).total = report.summary.total

(***************************************************************************)
(* SelectorAgent.run (selector.py 27-77) followed by the load step of      *)
(* ControllerAgent.run (controller.py 76-112) on the files it returned     *)
(***************************************************************************)

MaxDirEntries == 2

\* names of directory entries; the first two end in .json ignoring case
FileNames == {"a.json", "B.JSON", "notes.txt"}

\* selector.py 65: filename.lower().endswith('.json')
EndsWithJson(name) == name \in {"a.json", "B.JSON"}

\* values of the prompt_instructions key: absent, null, [], "", a string, a
\* list of strings, a list with a non-string element
InstrValues == {"absent", "null", "empty_list", "empty_str", "str", "list_strs", "list_nonstr"}

\* contents of a file: not JSON, JSON that is not an object, or an object
\* with or without control_id and with one of the instruction values
FileContents ==
    {[json |-> FALSE, object |-> FALSE, control_id |-> FALSE, prompt_instructions |-> "absent"],
     [json |-> TRUE, object |-> FALSE, control_id |-> FALSE, prompt_instructions |-> "absent"],
     [json |-> TRUE, object |-> TRUE, control_id |-> FALSE, prompt_instructions |-> "list_strs"]}
    \cup [json : {TRUE}, object : {TRUE}, control_id : {TRUE}, prompt_instructions : InstrValues]

\* isinstance(v, list)
IsList(v) == v \in {"empty_list", "list_strs", "list_nonstr"}

\* Python truth value of the instructions
Truthy(v) == v \in {"str", "list_strs", "list_nonstr"}

\* a validation that checks the required keys only
validate_prompt_file_keys_only(content) ==
    /\ content.json
    /\ content.object
    /\ content.control_id
    /\ content.prompt_instructions # "absent"

\* selector.py 27-49: _validate_prompt_file
validate_prompt_file(content) ==
    /\ content.json
    /\ content.object
    /\ content.control_id
    /\ content.prompt_instructions # "absent"
    /\ IsList(content.prompt_instructions)
    /\ Truthy(content.prompt_instructions)

\* directory listings: entries with distinct names, in any order
DirListings ==
    {l \in SeqsUpTo([name : FileNames, content : FileContents], MaxDirEntries) :
        \A i, j \in DOMAIN l : i # j => l[i].name # l[j].name}

\* the file as the controller finds it: gone, or with some content
Gone == [json |-> FALSE, object |-> FALSE, control_id |-> FALSE, prompt_instructions |-> "gone"]

\* controller.py 83-101: control_load_error (None: loaded)
control_load_error(content) ==
    IF content = Gone THEN "Error: Prompt file missing."
    ELSE IF ~content.json THEN "Error: Invalid JSON format."
    ELSE IF ~content.object THEN "Error: Unexpected loading prompt"
    ELSE IF ~Truthy(content.prompt_instructions) THEN "Error: Prompt instructions missing."
    ELSE None

SelectInit ==
    /\ spc = "entry"
    /\ category_dir \in {[isdir |-> TRUE, entries |-> l] : l \in DirListings}
                        \cup {[isdir |-> FALSE, entries |-> <<>>]}
    /\ s_i = 0
    /\ valid_prompt_files = <<>>
    /\ loaded = <<>>
    /\ ChunkIdle
    /\ GradeIdle
    /\ ReportIdle
    /\ PipeIdle
    /\ TwoIdle
    /\ ExtractIdle

\* selector.py 60-62: the category directory does not exist
SelectorNoDirectory ==
    /\ spc = "entry"
    /\ ~category_dir.isdir
    /\ spc' = "selected"
    /\ UNCHANGED <<category_dir, s_i, valid_prompt_files, loaded>>
    /\ UNCHANGED notSelect

\* selector.py 64-65, 75-77: os.listdir either lists the directory or
\* raises, and run then returns []
SelectorList ==
    /\ spc = "entry"
    /\ category_dir.isdir
    /\ \E listed \in BOOLEAN : spc' = IF listed THEN "listing" ELSE "selected"
    /\ UNCHANGED <<category_dir, s_i, valid_prompt_files, loaded>>
    /\ UNCHANGED notSelect

\* selector.py 65-70: one entry of the directory
SelectorVisit ==
    /\ spc = "listing"
    /\ s_i < Len(category_dir.entries)
    /\ LET entry == category_dir.entries[s_i + 1] IN
         valid_prompt_files' =
            IF EndsWithJson(entry.name) /\ validate_prompt_file(entry.content)
            THEN Append(valid_prompt_files, entry)
            ELSE valid_prompt_files
    /\ s_i' = s_i + 1
    /\ UNCHANGED <<spc, category_dir, loaded>>
    /\ UNCHANGED notSelect

\* selector.py 72-73: return valid_prompt_files
SelectorReturn ==
    /\ spc = "listing"
    /\ s_i = Len(category_dir.entries)
    /\ spc' = "selected"
    /\ UNCHANGED <<category_dir, s_i, valid_prompt_files, loaded>>
    /\ UNCHANGED notSelect

\* controller.py 76-112 for the next file of the list: the file is read as
\* it is now (it may have changed since the selector read it); with a load
\* error the iteration ends at the continue of line 112, otherwise it goes
\* on to the embedding, the query and the model calls, which may or may not
\* reach the model
ControllerLoad ==
    /\ spc = "selected"
    /\ Len(loaded) < Len(valid_prompt_files)
    /\ \E now \in FileContents \cup {Gone}, reached \in BOOLEAN :
        LET err == control_load_error(now) IN
        loaded' = Append(loaded,
            [file |-> valid_prompt_files[Len(loaded) + 1].name,
             content |-> now,
             control_load_error |-> err,
             llm_invoked |-> (err = None /\ reached)])
    /\ UNCHANGED <<spc, category_dir, s_i, valid_prompt_files>>
    /\ UNCHANGED notSelect

SelectNext ==
    \/ SelectorNoDirectory
    \/ SelectorList
    \/ SelectorVisit
    \/ SelectorReturn
    \/ ControllerLoad

SpecSelect == SelectInit /\ [][SelectNext]_vars

\* the instructions are a non-empty list
NonEmptyList(v) == v \in {"list_strs", "list_nonstr"}

\* the instructions the controller loaded are empty: the key absent (the
\* default []), null, [] or ""
EmptyInstructions(c) ==
    /\ c # Gone
    /\ c.json
    /\ c.object
    /\ c.prompt_instructions \in {"absent", "null", "empty_list", "empty_str"}

\* C28: every file SelectorAgent.run has collected or returned is a .json
\* entry of the directory whose prompt_instructions, as the selector read
\* it, is a non-empty list; and for a control whose instructions, as the
\* controller loaded them, are empty, the controller records the load error
\* and does not invoke the evaluation model.
C28_EmptyInstructionsRejected ==
    /\ \A k \in DOMAIN valid_prompt_files :
          /\ NonEmptyList(valid_prompt_files[k].content.prompt_instructions)
          /\ \E j \in 1..s_i : category_dir.entries[j] = valid_prompt_files[k]
    /\ spc = "selected" /\ category_dir.isdir =>
          \A j \in 1..s_i :
              (category_dir.entries[j].content.object /\ ~NonEmptyList(category_dir.entries[j].content.prompt_instructions)) =>
                  \A k \in DOMAIN valid_prompt_files : valid_prompt_files[k] # category_dir.entries[j]
    /\ \A k \in DOMAIN loaded :
          EmptyInstructions(loaded[k].content) =>
              /\ loaded[k].control_load_error = "Error: Prompt instructions missing."
              /\ ~loaded[k].llm_invoked

\* of two .json files, the one with an empty instruction list was rejected
\* and the other returned; the controller then found that file with an
\* empty list and did not invoke the model
C28_Witness ==
    /\ spc = "selected"
    /\ Len(category_dir.entries) = 2
    /\ s_i = 2
    /\ \E j \in 1..2 :
          /\ EndsWithJson(category_dir.entries[j].name)
          /\ category_dir.entries[j].content.control_id
          /\ category_dir.entries[j].content.prompt_instructions = "empty_list"
    /\ Len(valid_prompt_files) = 1
    /\ Len(loaded) = 1
    /\ loaded[1].content.prompt_instructions = "empty_list"
    /\ ~loaded[1].llm_invoked

====
